---------------------------- MODULE Spec2Model ----------------------------
(***************************************************************************)
(* Dialogue state and information-sufficiency engine of the WhatsApp       *)
(* bankruptcy-consultation bot (ToreShark/webhook_whatsapp).               *)
(*                                                                         *)
(*   data_extractor.py        DataExtractor.merge_context                  *)
(*   question_prioritizer.py  QuestionPrioritizer                          *)
(*   simple_api.py            chat_endpoint (the /chat dialogue turn)      *)
(*   query.py                 process_chat_message (the scripted dialogue) *)
(*                                                                         *)
(* Python dicts are functions whose DOMAIN is the set of keys present;     *)
(* Python None is the value NoneVal.  Confidences are in tenths (0.5 = 5). *)
(* Russian keywords are written in Latin transliteration.                  *)
(***************************************************************************)
EXTENDS Integers, Sequences, FiniteSets, TLC

VARIABLES
    mergeIn,        \* merge harness: the arguments of merge_context
    mergeOut,       \* merge harness: [phase, merged]
    prioIn,         \* prioritizer harness: [context, intent]
    prioOut,        \* prioritizer harness: the results of its three methods
    context,        \* /chat conversation: the context the caller persists
    session_state,  \* /chat conversation: the session state the caller persists
    turn,           \* /chat conversation: summary of the last turn
    storedConf,     \* /chat conversation (ghost): confidence each stored value was set with
    q_context,      \* scripted conversation: the context the caller persists
    q_state,        \* scripted conversation: the session state last returned
    q_turn,         \* scripted conversation: summary of the last turn
    q_script,       \* scripted conversation (ghost): questions asked and replies since the greeting
    extractIn,      \* extraction harness: [user_message, collaborator]
    extractOut,     \* extraction harness: [phase, result]
    srv_state,      \* api_server conversation: the session state last returned
    srv_turn,       \* api_server conversation: summary of the last turn
    rank_heap,      \* re-ranking calls: the prioritizer's lists as the last call left them
    rank_turn,      \* re-ranking calls: summary of the last call
    process,        \* interleaved conversations: the module globals of simple_api
    conv,           \* interleaved conversations: what the caller persists for each conversation
    composeIn,      \* answer composer harness: [debt_amount, index]
    composeOut,     \* answer composer harness: [phase, limit, classification]
    progress        \* (ghost) collection progress: [asked, missing_before]

vars == << mergeIn, mergeOut, prioIn, prioOut, context, session_state, turn,
           storedConf, q_context, q_state, q_turn, q_script, extractIn, extractOut,
           srv_state, srv_turn,
           rank_heap, rank_turn,
           process, conv,
           composeIn, composeOut,
           progress >>

mergeVars == << mergeIn, mergeOut >>
prioVars == << prioIn, prioOut >>
chatVars == << context, session_state, turn, storedConf >>
queryVars == << q_context, q_state, q_turn, q_script >>
extractVars == << extractIn, extractOut >>
serverVars == << srv_state, srv_turn >>
rankVars == << rank_heap, rank_turn >>
concVars == << process, conv >>
composeVars == << composeIn, composeOut >>
progressVars == << progress >>

---------------------------------------------------------------------------
(* Bounds of the model                                                     *)

\* number of fields (a prefix of FieldNames) the merge harness draws dicts over
NumMergeFields == 2

\* number of catalog fields (a prefix of the catalog) the prioritizer harness
\* draws contexts over
NumPrioFields == 6

\* number of fields (a prefix of FieldNames) the /chat conversation extracts
NumChatFields == 4

\* number of fields one extraction result of the /chat conversation supplies
MaxSupplied == 1

\* number of fields (a prefix of FieldNames) of the stored-value conversation
NumStoreFields == 1

\* number of answers the scripted conversation collects before the model stops it
MaxAnswers == 5

\* number of words of a message the extraction harness draws
MaxExtractLen == 2

\* number of conversations whose turns one server process interleaves
NumConversations == 2

\* how far below and above each limit the composer harness draws debt amounts
ClassifyMargin == 10

\* the most questions a conversation is followed for
MaxAsked == 5

---------------------------------------------------------------------------
(* Python values and dicts                                                 *)

NoneVal == "None"

\* the non-null values a field can take (two, so that a replacement shows)
Values == {"v1", "v2"}

\* confidences in tenths: below, at and above the 0.5 threshold
Confs == {3, 5, 6, 9}

EmptyDict == [k \in {} |-> NoneVal]

\* d.get(k, default)
Get(d, k, default) == IF k \in DOMAIN d THEN d[k] ELSE default

\* d[k] = v
Put(d, k, v) == [x \in (DOMAIN d) \cup {k} |-> IF x = k THEN v ELSE d[x]]

\* all dicts with keys among K and values in V
Dicts(K, V) == UNION {[S -> V] : S \in SUBSET K}

\* the fields the extraction prompt asks for, in the order of its JSON schema
FieldNames ==
    << "debtAmount", "hasOverdue12Months", "monthlyIncome", "employmentType",
       "incomeStability", "hasProperty", "hasCar", "hasCollateral",
       "collateralType", "hasCollectorPressure", "hasAccountArrest",
       "hasWageArrest", "previousRejection", "creditorsCount" >>

\* the first n fields of the schema
FieldPrefix(n) == {FieldNames[i] : i \in 1..(IF n < Len(FieldNames) THEN n ELSE Len(FieldNames))}

\* d.items(): the keys of d in schema order
ItemsOf(d) == SelectSeq(FieldNames, LAMBDA k : k \in DOMAIN d)

---------------------------------------------------------------------------
(* data_extractor.py: DataExtractor.merge_context                          *)

\* confidence.get(key, 0.8)
DefaultConfidence == 8

\* conf > 0.5
ConfidenceThreshold == 5

\* the body of the loop without "if value is not None"
MergeStepWithoutNullCheck(merged, key, value, conf) ==
    IF conf > ConfidenceThreshold \/ key \notin DOMAIN merged
    THEN Put(merged, key, value)
    ELSE merged

\* the body of the loop with the comparison "conf >= 0.5"
MergeStepAtLeast(merged, key, value, conf) ==
    IF value # NoneVal
    THEN IF conf >= ConfidenceThreshold \/ key \notin DOMAIN merged
         THEN Put(merged, key, value)
         ELSE merged
    ELSE merged

\* the body of the loop with "else: del merged[key]" for a doubted value
MergeStepDroppingDoubted(merged, key, value, conf) ==
    IF value # NoneVal
    THEN IF conf > ConfidenceThreshold \/ key \notin DOMAIN merged
         THEN Put(merged, key, value)
         ELSE [k \in (DOMAIN merged) \ {key} |-> merged[k]]
    ELSE merged

\* the body of the loop of merge_context
MergeStep(merged, key, value, conf) ==
    IF value # NoneVal
    THEN IF conf > ConfidenceThreshold \/ key \notin DOMAIN merged
         THEN Put(merged, key, value)
         ELSE merged
    ELSE merged

RECURSIVE MergeLoop(_, _, _, _)
\* for key, value in extracted.items(): ...
MergeLoop(merged, extracted, confidence, keys) ==
    IF keys = << >>
    THEN merged
    ELSE LET key == Head(keys)
             conf == Get(confidence, key, DefaultConfidence)
         IN MergeLoop(MergeStep(merged, key, extracted[key], conf),
                      extracted, confidence, Tail(keys))

\* "merged = existing_context": the name merged bound to the caller's dict
DictAlias(objects, name) == [ref |-> name, objects |-> objects]

\* existing_context.copy(): a new dict object with the same keys and values
DictCopy(objects, name) ==
    [ref |-> "merged",
     objects |-> [o \in (DOMAIN objects) \cup {"merged"} |->
                     IF o = "merged" THEN objects[name] ELSE objects[o]]]

\* merge_context on dict objects: the caller's dict is the object
\* "existing_context"; the result is the object the name merged refers to
MergeObjects(existing_context, new_extraction) ==
    LET extracted == Get(new_extraction, "extracted_data", EmptyDict)
        confidence == Get(new_extraction, "confidence", EmptyDict)
        copied == DictCopy([o \in {"existing_context"} |-> existing_context],
                           "existing_context")
        after == [copied.objects EXCEPT
                     ![copied.ref] = MergeLoop(copied.objects[copied.ref], extracted,
                                               confidence, ItemsOf(extracted))]
    IN [merged |-> after[copied.ref], existing_context |-> after["existing_context"]]

\* a merge that returns the prior context and drops the extraction
merge_context_discarding(existing_context, new_extraction) ==
    existing_context

\* the value merge_context returns
merge_context(existing_context, new_extraction) ==
    MergeObjects(existing_context, new_extraction).merged

---------------------------------------------------------------------------
(* question_prioritizer.py: QuestionPrioritizer                            *)

\* x in xs, for a Python list xs
InList(x, xs) == \E i \in 1..Len(xs) : xs[i] = x

\* self.question_templates, in declaration order (the question texts shortened)
question_templates ==
    << [key |-> "debt_amount", question |-> "What is your total debt?",
        field |-> "debtAmount", priority |-> 1,
        required_for |-> << "eligibility_check", "how_to_start" >>],
       [key |-> "overdue_check", question |-> "Any loans overdue more than 12 months?",
        field |-> "hasOverdue12Months", priority |-> 2,
        required_for |-> << "eligibility_check", "how_to_start" >>],
       [key |-> "monthly_income", question |-> "What is your monthly income?",
        field |-> "monthlyIncome", priority |-> 3,
        required_for |-> << "eligibility_check" >>],
       [key |-> "employment_type", question |-> "Do you work officially or unofficially?",
        field |-> "employmentType", priority |-> 4,
        required_for |-> << "eligibility_check", "how_to_start" >>],
       [key |-> "property_check", question |-> "Do you own real estate?",
        field |-> "hasProperty", priority |-> 5,
        required_for |-> << "eligibility_check", "how_to_start" >>],
       [key |-> "car_check", question |-> "Do you own a car?",
        field |-> "hasCar", priority |-> 6,
        required_for |-> << "eligibility_check" >>],
       [key |-> "collateral_check", question |-> "Do you have pledged property?",
        field |-> "hasCollateral", priority |-> 7,
        required_for |-> << "how_to_start" >>],
       [key |-> "creditors_count", question |-> "How many creditors do you have?",
        field |-> "creditorsCount", priority |-> 8,
        required_for |-> << "how_to_start" >>] >>

\* self.required_fields
required_fields ==
    [eligibility_check |-> << "debtAmount", "hasOverdue12Months", "monthlyIncome" >>,
     how_to_start |-> << "debtAmount", "hasOverdue12Months", "employmentType", "hasProperty" >>,
     documentation |-> << "employmentType" >>,
     consequences |-> << "hasProperty", "hasCar" >>,
     specific_problem |-> << >>]

\* the intents of the requirement set
Intents == DOMAIN required_fields

\* "field not in context" alone: a null value counts as known
FieldAbsentOnly(ctx, field) == field \notin DOMAIN ctx

\* "field not in context or context[field] is None"
FieldMissing(ctx, field) == field \notin DOMAIN ctx \/ ctx[field] = NoneVal

\* the missing fields collected from the last required field to the first
missing_fields_backwards(ctx, intent) ==
    LET required == Get(required_fields, intent, << >>)
        missing == SelectSeq(required, LAMBDA field : FieldMissing(ctx, field))
    IN [i \in 1..Len(missing) |-> missing[Len(missing) + 1 - i]]

\* _get_missing_critical_fields
get_missing_critical_fields(ctx, intent) ==
    LET required == Get(required_fields, intent, << >>)
    IN SelectSeq(required, LAMBDA field : FieldMissing(ctx, field))

\* has_sufficient_info
has_sufficient_info(ctx, intent) ==
    Len(get_missing_critical_fields(ctx, intent)) = 0

\* the returned None of get_next_question
NoQuestion == [key |-> NoneVal]

\* best_priority = float('inf'): above every priority of the catalog
InfPriority == 1000000

\* the comparison of get_next_question reversed
PriorityAbove(priority, best_priority) == priority > best_priority

\* priority < best_priority
PriorityBelow(priority, best_priority) == priority < best_priority

RECURSIVE NextQuestionLoop(_, _, _, _, _)
\* for question_key, question_data in self.question_templates.items(): ...
NextQuestionLoop(templates, missing_fields, intent, best_question, best_priority) ==
    IF templates = << >>
    THEN best_question
    ELSE LET question_data == Head(templates)
             field == question_data.field
             priority == question_data.priority
             required_for == question_data.required_for
         IN IF /\ InList(field, missing_fields)
               /\ (required_for = << >> \/ InList(intent, required_for))
               /\ PriorityBelow(priority, best_priority)
            THEN NextQuestionLoop(Tail(templates), missing_fields, intent,
                                  question_data, priority)
            ELSE NextQuestionLoop(Tail(templates), missing_fields, intent,
                                  best_question, best_priority)

\* get_next_question
get_next_question(ctx, intent) ==
    LET missing_fields == get_missing_critical_fields(ctx, intent)
    IN IF missing_fields = << >>
       THEN NoQuestion
       ELSE NextQuestionLoop(question_templates, missing_fields, intent,
                             NoQuestion, InfPriority)

\* the large-debt threshold of should_ask_followup_questions
LargeDebt == 10000000

\* a comparison that counts the threshold itself as large
AtLeastLargeDebt(debt_amount) == debt_amount >= LargeDebt

\* debt_amount > 10000000
ExceedsLargeDebt(debt_amount) == debt_amount > LargeDebt

\* should_ask_followup_questions. The context comes in two parts, numbers with
\* the fields whose value is a number and ctx with all the others;
\* "debt_amount and ..." is false for None and for 0
should_ask_followup_questions(ctx, numbers, intent) ==
    IF intent = "eligibility_check"
    THEN LET debt_amount == IF "debtAmount" \in DOMAIN ctx THEN 0
                            ELSE Get(numbers, "debtAmount", 0)
         IN \/ /\ debt_amount # 0
               /\ ExceedsLargeDebt(debt_amount)
               /\ Get(ctx, "hasProperty", NoneVal) = NoneVal
            \/ /\ Get(ctx, "employmentType", NoneVal) = "government"
               /\ Get(ctx, "hasWageArrest", NoneVal) = NoneVal
    ELSE FALSE

---------------------------------------------------------------------------
(* Prioritizer harness: the three methods on every bounded (context, intent) *)

\* the fields the catalog asks about, in declaration order
CatalogFields == [i \in 1..Len(question_templates) |-> question_templates[i].field]

PrioFields ==
    {CatalogFields[i] :
        i \in 1..(IF NumPrioFields < Len(CatalogFields) THEN NumPrioFields
                  ELSE Len(CatalogFields))}

\* the intents of the requirement set and one that is not in it
PrioIntents == Intents \cup {"unknown_intent"}

InitPrio ==
    /\ prioIn \in [context : Dicts(PrioFields, {"v1", NoneVal}), intent : PrioIntents]
    /\ prioOut = [phase |-> "called"]

\* has_sufficient_info, _get_missing_critical_fields and get_next_question called
PrioCall ==
    /\ prioOut.phase = "called"
    /\ prioOut' = [phase |-> "returned",
                   missing |-> get_missing_critical_fields(prioIn.context, prioIn.intent),
                   sufficient |-> has_sufficient_info(prioIn.context, prioIn.intent),
                   next_question |-> get_next_question(prioIn.context, prioIn.intent)]
    /\ UNCHANGED prioIn

\* debt amounts below, at and above the large-debt threshold
FollowupDebts == {0, LargeDebt - 1, LargeDebt, LargeDebt + 1}

\* contexts over the four fields should_ask_followup_questions reads: the part
\* without numbers (a debtAmount there is null)
FollowupContexts ==
    {d \in Dicts({"debtAmount", "hasProperty", "employmentType", "hasWageArrest"},
                 {NoneVal, "v1", "government", "official"}) :
        /\ "debtAmount" \in DOMAIN d => d["debtAmount"] = NoneVal
        /\ "hasProperty" \in DOMAIN d => d["hasProperty"] \in {NoneVal, "v1"}
        /\ "employmentType" \in DOMAIN d => d["employmentType"] \in {"government", "official"}
        /\ "hasWageArrest" \in DOMAIN d => d["hasWageArrest"] \in {NoneVal, "v1"}}

InitFollowup ==
    /\ prioIn \in {r \in [context : FollowupContexts,
                           numbers : Dicts({"debtAmount"}, FollowupDebts),
                           intent : PrioIntents] :
                       DOMAIN r.context \cap DOMAIN r.numbers = {}}
    /\ prioOut = [phase |-> "called"]

\* should_ask_followup_questions called
FollowupCall ==
    /\ prioOut.phase = "called"
    /\ prioOut' = [phase |-> "returned",
                   followup |-> should_ask_followup_questions(prioIn.context, prioIn.numbers,
                                                                 prioIn.intent)]
    /\ UNCHANGED prioIn

---------------------------------------------------------------------------
(* Messages: a message is a sequence of words; message.lower() lowers each *)
(* word and "pattern in message" holds when the words of the pattern occur *)
(* next to one another in the message.                                     *)

LowerWord(w) ==
    CASE w = "Privet" -> "privet"
      [] w = "IP" -> "ip"
      [] w = "Chto" -> "chto"
      [] w = "Kak" -> "kak"
      [] w = "Rabota" -> "rabota"
      [] OTHER -> w

\* message.lower()
Lower(message) == [i \in 1..Len(message) |-> LowerWord(message[i])]

\* pattern in text
Contains(text, pattern) ==
    \E i \in 0..(Len(text) - Len(pattern)) :
        SubSeq(text, i + 1, i + Len(pattern)) = pattern

\* any(pattern in text for pattern in patterns)
AnyIn(patterns, text) == \E i \in 1..Len(patterns) : Contains(text, patterns[i])

---------------------------------------------------------------------------
(* data_extractor.py: DataExtractor.extract_data                           *)

\* an extraction result that is not a mapping (the model answered with a JSON
\* list or number): merge_context raises on its first .get
NonDictExtraction == [not_a_dict |-> TRUE]

\* the digit runs a message can hold, with int(match.group(1))
NumberValue == ("5" :> 5) @@ ("300" :> 300)

\* \d+
IsNumber(w) == w \in DOMAIN NumberValue

\* words that begin with the text of (?:mln|million), of (?:k|tysyach), of tenge
MillionWords == {"mln", "million", "millionov"}
ThousandWords == {"k", "tysyach", "kredita", "kak"}

\* re.search: the leftmost position where a digit run is followed by one of
\* the words, 0 when the pattern does not match
SearchAmount(tokens, followers) ==
    LET hits == {i \in 1..(Len(tokens) - 1) :
                    IsNumber(tokens[i]) /\ tokens[i + 1] \in followers}
    IN IF hits = {} THEN 0 ELSE CHOOSE i \in hits : \A j \in hits : i <= j

\* re.search of (\d+)\s*(?:tenge)?: the leftmost digit run
SearchNumber(tokens) ==
    LET hits == {i \in 1..Len(tokens) : IsNumber(tokens[i])}
    IN IF hits = {} THEN 0 ELSE CHOOSE i \in hits : \A j \in hits : i <= j

\* the loop over amount_patterns: the first pattern that matches sets debtAmount
FallbackData(user_message) ==
    LET tokens == Lower(user_message)
        millions == SearchAmount(tokens, MillionWords)
        thousands == SearchAmount(tokens, ThousandWords)
        plain == SearchNumber(tokens)
    IN IF millions # 0
       THEN [debtAmount |-> NumberValue[tokens[millions]] * 1000000]
       ELSE IF thousands # 0
       THEN [debtAmount |-> NumberValue[tokens[thousands]] * 1000]
       ELSE IF plain # 0
       THEN [debtAmount |-> NumberValue[tokens[plain]]]
       ELSE EmptyDict

\* the intent of the fallback
FallbackIntent(user_message) ==
    IF AnyIn(<< << "kak", "nachat" >>, << "s", "chego", "nachat" >> >>,
             Lower(user_message))
    THEN "how_to_start"
    ELSE IF AnyIn(<< << "dokumenty" >>, << "spravki" >> >>, Lower(user_message))
    THEN "documentation"
    ELSE "eligibility_check"

\* a fallback that trusts its amount (no confidence entry: the default applies)
create_fallback_extraction_confident(user_message) ==
    [extracted_data |-> FallbackData(user_message),
     intent |-> FallbackIntent(user_message),
     confidence |-> EmptyDict,
     missing_critical |-> << "hasOverdue12Months", "monthlyIncome" >>,
     user_situation |-> "Fallback extraction used"]

\* _create_fallback_extraction
create_fallback_extraction(user_message) ==
    [extracted_data |-> FallbackData(user_message),
     intent |-> FallbackIntent(user_message),
     confidence |-> [debtAmount |-> 3],
     missing_critical |-> << "hasOverdue12Months", "monthlyIncome" >>,
     user_situation |-> "Fallback extraction used"]

\* what the extraction chain does: it raises, or returns text that is not
\* JSON, or returns the text of a JSON value
CollaboratorRaises == [outcome |-> "raises"]
CollaboratorText == [outcome |-> "text"]
CollaboratorJson(value) == [outcome |-> "json", value |-> value]

\* extract_data: the value returned and whether the fallback made it
extract_data(user_message, collaborator) ==
    IF collaborator.outcome = "json"
    THEN [value |-> collaborator.value, fallback |-> FALSE]
    ELSE [value |-> create_fallback_extraction(user_message), fallback |-> TRUE]

---------------------------------------------------------------------------
(* Extraction harness: extract_data on every bounded (message, collaborator) *)

ExtractWords == {"5", "mln", "kredita", "Kak", "nachat", "dokumenty"}

ExtractMessages == UNION {[1..n -> ExtractWords] : n \in 1..MaxExtractLen}

\* the JSON values the collaborator can answer with: results of the schema,
\* a mapping without the keys, a mapping with one key, a value that is no mapping
JsonValues ==
    { [extracted_data |-> [debtAmount |-> "v1"], intent |-> "how_to_start",
       confidence |-> [debtAmount |-> 9]],
      [extracted_data |-> EmptyDict, intent |-> "eligibility_check",
       confidence |-> EmptyDict],
      EmptyDict,
      [extracted_data |-> [debtAmount |-> "v1"]],
      NonDictExtraction }

Collaborators ==
    {CollaboratorRaises, CollaboratorText} \cup {CollaboratorJson(v) : v \in JsonValues}

\* the contexts a turn can arrive with: each of two fields unset, null or known
ExtractContexts == Dicts({"debtAmount", "monthlyIncome"}, {"v1", NoneVal})

InitExtract ==
    /\ extractIn \in [user_message : ExtractMessages, collaborator : Collaborators,
                      existing_context : ExtractContexts]
    /\ extractOut = [phase |-> "called"]

\* a call of extract_data
ExtractCall ==
    /\ extractOut.phase = "called"
    /\ \E r \in {extract_data(extractIn.user_message, extractIn.collaborator)} :
          extractOut' = [phase |-> "returned", result |-> r.value,
                         fallback |-> r.fallback]
    /\ UNCHANGED extractIn

\* the values of a context are held as strings in this model: an amount the
\* fallback computed is held as its decimal numeral
WithNumerals(extraction_result) ==
    [extraction_result EXCEPT
        !.extracted_data = [k \in DOMAIN @ |-> ToString(@[k])]]

\* chat_endpoint merges the returned result into the context of the request;
\* a result that is no mapping makes merge_context raise
ExtractMerge ==
    /\ extractOut.phase = "returned"
    /\ extractOut' =
          [phase |-> "merged", result |-> extractOut.result,
           fallback |-> extractOut.fallback,
           raised |-> extractOut.result = NonDictExtraction,
           updated_context |->
               IF extractOut.result = NonDictExtraction
               THEN extractIn.existing_context
               ELSE merge_context(extractIn.existing_context,
                                  IF extractOut.fallback
                                  THEN WithNumerals(extractOut.result)
                                  ELSE extractOut.result)]
    /\ UNCHANGED extractIn

---------------------------------------------------------------------------
(* simple_api.py: chat_endpoint                                            *)

\* followup_patterns of _is_followup_question
followup_patterns ==
    << << "chto", "dalshe" >>, << "chto", "potom" >>, << "chto", "posle" >>,
       << "posle", "bankrotstva" >>, << "chto", "delat", "dalshe" >>,
       << "chto", "delat", "potom" >>, << "chto", "delat", "posle" >>,
       << "sleduyushchii", "shag" >>, << "dalneishie", "deistviya" >>,
       << "plan", "deistvii" >>, << "kuda", "obrashchatsya" >>,
       << "gde", "poluchit", "pomoshch" >>, << "nuzhna", "konsultatsiya" >>,
       << "khochu", "konsultatsiyu" >>, << "pomogite" >>, << "posovetuite" >> >>

\* _is_followup_question
is_followup_question(message) == AnyIn(followup_patterns, Lower(message))

\* the fixed texts of chat_endpoint
ApologyMessage == "Sorry, an error occurred while processing your message. Try again."
FallbackMessage == "Thank you for the information! Let me analyse your situation..."

\* analyze_completion_status (without the completion percentage)
analyze_completion_status(ctx, intent) ==
    LET missing_critical == get_missing_critical_fields(ctx, intent)
        required == Get(required_fields, intent, << >>)
    IN [has_sufficient_info |-> Len(missing_critical) = 0,
        missing_critical |-> missing_critical,
        required_total |-> Len(required),
        filled_count |-> Len(required) - Len(missing_critical),
        next_phase |-> IF Len(missing_critical) = 0 THEN "complete" ELSE "collecting"]

\* DialogueGenerator.should_use_greeting
should_use_greeting(state, ctx) ==
    /\ state = "initial"
    /\ Get(ctx, "questionsAsked", << >>) = << >>
    /\ Get(ctx, "answersReceived", EmptyDict) = EmptyDict

\* the calls of a turn up to the one that raised
StepsUntil(raised) ==
    CASE raised = "init_components" -> << "init_components" >>
      [] raised = "merge_context" ->
            << "init_components", "extract_data", "merge_context" >>
      [] raised = "process_query" ->
            << "init_components", "extract_data", "merge_context",
               "analyze_completion_status:sufficient", "process_query" >>

\* an except branch that hands the request's context back
ErrorResponseKeepingContext(request, raised) ==
    [kind |-> "error", response |-> ApologyMessage, session_state |-> "initial",
     context_updates |-> request.context, next_question |-> NoneVal,
     has_sufficient_info |-> FALSE, rag_called |-> raised = "process_query",
     raised |-> raised, steps |-> StepsUntil(raised), blocks |-> {}]

\* the except branch of chat_endpoint
ErrorResponse(request, raised) ==
    [kind |-> "error", response |-> ApologyMessage, session_state |-> "initial",
     context_updates |-> EmptyDict, next_question |-> NoneVal,
     has_sufficient_info |-> FALSE, rag_called |-> raised = "process_query",
     raised |-> raised, steps |-> StepsUntil(raised), blocks |-> {}]

\* what process_query returns: the answer composed of the fact summary, the
\* classification line and the narrative of the RAG
process_query_blocks == {"fact_summary", "classification", "rag_narrative"}

\* the calls every turn makes before it branches
CommonSteps(completion_status) ==
    << "init_components", "extract_data", "merge_context",
       IF completion_status.has_sufficient_info
       THEN "analyze_completion_status:sufficient"
       ELSE "analyze_completion_status:insufficient" >>

\* a gate that lets every turn through to the answer
ShouldAnswerAlways(completion_status) == TRUE

\* if completion_status["has_sufficient_info"]
ShouldAnswer(completion_status) == completion_status.has_sufficient_info

\* a fallback that keeps collecting
FallbackResponseCollecting(updated_context, completion_status) ==
    [kind |-> "fallback", response |-> FallbackMessage,
     session_state |-> "collecting_info",
     context_updates |-> updated_context, next_question |-> NoneVal,
     has_sufficient_info |-> FALSE, rag_called |-> FALSE, raised |-> "none",
     steps |-> CommonSteps(completion_status) \o << "get_next_question" >>,
     blocks |-> {}]

\* the branch "no question left although the information is insufficient"
FallbackResponse(updated_context, completion_status) ==
    [kind |-> "fallback", response |-> FallbackMessage,
     session_state |-> "answered",
     context_updates |-> updated_context, next_question |-> NoneVal,
     has_sufficient_info |-> FALSE, rag_called |-> FALSE, raised |-> "none",
     steps |-> CommonSteps(completion_status) \o << "get_next_question" >>,
     blocks |-> {}]

\* the try block of chat_endpoint after init_components and the extraction;
\* fault names the collaborator call that raises when it is made
ChatBody(request, extraction_result, fault) ==
    LET user_message == request.message
        existing_context == request.context
        state == request.session_state
        merged == merge_context(existing_context, extraction_result)
        user_intent == Get(extraction_result, "intent", "eligibility_check")
        updated_context == Put(merged, "userIntent", user_intent)
        completion_status == analyze_completion_status(updated_context, user_intent)
        next_question_data == get_next_question(updated_context, user_intent)
    IN IF state = "answered" /\ is_followup_question(user_message)
       THEN [kind |-> "followup", response |-> "followup_response",
             session_state |-> "offering_product",
             context_updates |-> updated_context, next_question |-> NoneVal,
             has_sufficient_info |-> TRUE, rag_called |-> FALSE, raised |-> "none",
             steps |-> CommonSteps(completion_status)
                          \o << "handle_followup_question" >>,
             blocks |-> {}]
       ELSE IF ShouldAnswer(completion_status)
       THEN IF fault = "process_query"
            THEN ErrorResponse(request, "process_query")
            ELSE [kind |-> "answer", response |-> "rag_response",
                  session_state |-> "answered",
                  context_updates |-> updated_context, next_question |-> NoneVal,
                  has_sufficient_info |-> completion_status.has_sufficient_info,
                  rag_called |-> TRUE, raised |-> "none",
                  steps |-> CommonSteps(completion_status) \o << "process_query" >>,
                  blocks |-> process_query_blocks]
       ELSE IF next_question_data # NoQuestion
       THEN [kind |-> "question",
             response |-> IF should_use_greeting(state, existing_context)
                          THEN "generated_greeting" ELSE "generated_transition",
             session_state |-> "collecting_info",
             context_updates |-> updated_context,
             next_question |-> next_question_data.question,
             has_sufficient_info |-> FALSE, rag_called |-> FALSE, raised |-> "none",
             steps |-> CommonSteps(completion_status)
                          \o << "get_next_question",
                                IF should_use_greeting(state, existing_context)
                                THEN "generate_greeting" ELSE "generate_transition" >>,
             blocks |-> {}]
       ELSE FallbackResponse(updated_context, completion_status)

\* chat_endpoint: one /chat turn
chat_endpoint(request, extraction_result, fault) ==
    IF fault = "init_components"
    THEN ErrorResponse(request, "init_components")
    ELSE IF extraction_result = NonDictExtraction
    THEN ErrorResponse(request, "merge_context")
    ELSE ChatBody(request, extraction_result, fault)

---------------------------------------------------------------------------
(* The /chat conversation: the caller sends each turn the context and the  *)
(* session state the previous turn returned.                               *)

\* the confidence an extraction result carries for a field
EffectiveConf(extraction_result, f) ==
    Get(Get(extraction_result, "confidence", EmptyDict), f, DefaultConfidence)

\* the fields of a context (its keys other than userIntent)
FactsOf(ctx) == (DOMAIN ctx) \ {"userIntent"}

\* (ghost) the fields whose stored value a turn replaced by another value, each
\* with the confidence its old value had been set with
Replaced(old, new, conf) ==
    [f \in {g \in FactsOf(old) \cap FactsOf(new) : old[g] # new[g]} |-> conf[f]]

\* one turn with the message, the extractor's result and the failing
\* collaborator drawn from the given sets
ChatTurn(Messages, Extractions, Faults) ==
    \E message \in Messages, extraction_result \in Extractions, fault \in Faults :
        \E resp \in {chat_endpoint([message |-> message, context |-> context,
                                    session_state |-> session_state],
                                   extraction_result, fault)} :
           /\ context' = resp.context_updates
           /\ session_state' = resp.session_state
           /\ turn' = [kind |-> resp.kind, arrived |-> session_state,
                       message |-> message, steps |-> resp.steps,
                       blocks |-> resp.blocks,
                       response |-> resp.response,
                       next_question |-> resp.next_question,
                       rag_called |-> resp.rag_called, raised |-> resp.raised,
                       replaced |-> Replaced(context, resp.context_updates, storedConf)]
           /\ storedConf' =
                 [f \in FactsOf(resp.context_updates) |->
                     IF f \in DOMAIN context /\ context[f] = resp.context_updates[f]
                     THEN storedConf[f]
                     ELSE EffectiveConf(extraction_result, f)]

InitChat ==
    /\ context = EmptyDict
    /\ session_state = "initial"
    /\ turn = [kind |-> "none", arrived |-> "initial", message |-> << >>,
               steps |-> << >>, blocks |-> {}, response |-> NoneVal,
               next_question |-> NoneVal, rag_called |-> FALSE, raised |-> "none",
               replaced |-> EmptyDict]
    /\ storedConf = EmptyDict

\* the collaborator calls that can raise inside the try block
ChatFaults == {"none", "init_components", "process_query"}

\* a plain message, a follow-up message, a message with a collector keyword
ChatMessages == { << "dolg" >>, << "Chto", "dalshe" >>, << "kollektor" >> }

\* the value of the intent key, "absent" for a result without the key
ChatIntents == Intents \cup {"absent"}

\* an extraction result from its parts
Extraction(ed, cf, intent) ==
    IF intent = "absent"
    THEN [extracted_data |-> ed, confidence |-> cf]
    ELSE [extracted_data |-> ed, confidence |-> cf, intent |-> intent]

ChatFields == FieldPrefix(NumChatFields)

\* the main conversation: each result supplies at most MaxSupplied fields
ChatExtractions ==
    {Extraction([f \in S |-> "v1"], EmptyDict, intent) :
        S \in {T \in SUBSET ChatFields : Cardinality(T) <= MaxSupplied},
        intent \in ChatIntents}
    \cup {NonDictExtraction}

\* the conversation about stored values: few fields, every value and confidence
StoreFields == FieldPrefix(NumStoreFields)

StoreMessages == { << "dolg" >> }

StoreFaults == {"none", "process_query"}

\* confidences at the threshold and above it
StoreConfs == {5, 6, 9}

\* each field is left out, or a value with one of the confidences or none
StoreExtractions ==
    UNION {{Extraction(ed, cf, intent) :
                cf \in Dicts(DOMAIN ed, StoreConfs),
                intent \in {"eligibility_check", "specific_problem"}} :
            ed \in Dicts(StoreFields, Values)}

---------------------------------------------------------------------------
(* The /chat conversation of a caller who answers what is asked: the       *)
(* intent stays eligibility_check, no collaborator fails, and the           *)
(* extraction of every reply holds the asked field with a trusted value.    *)

\* the fields the extractor reports in this conversation
ProgressFields ==
    {required_fields.eligibility_check[i] :
        i \in 1..Len(required_fields.eligibility_check)}

\* the field of the catalog question with the given text
AskedField(next_question) ==
    CHOOSE f \in FieldPrefix(Len(FieldNames)) :
        \E i \in 1..Len(question_templates) :
            /\ question_templates[i].question = next_question
            /\ question_templates[i].field = f

\* a doubted confidence and two trusted ones
ProgressConfs == {3, 6, 9}

\* what the extractor can return for the opening message: each field left
\* out, null or with a value, and a confidence for every field it reports
OpeningExtractions ==
    UNION {{Extraction(ed, cf, "eligibility_check") :
                cf \in [DOMAIN ed -> ProgressConfs]} :
            ed \in Dicts(ProgressFields, {"v1", NoneVal})}

\* what the extractor can return for a reply to the question about field:
\* the field non-null with a confidence above the threshold, and anything
\* about the other fields
ReplyExtractions(field) ==
    {x \in OpeningExtractions :
        /\ field \in DOMAIN x.extracted_data
        /\ x.extracted_data[field] # NoneVal
        /\ EffectiveConf(x, field) > ConfidenceThreshold}

ProgressMessages == { << "dolg" >>, << "kollektor" >> }

\* the number of required fields of eligibility_check the context lacks
MissingCount(ctx) == Len(get_missing_critical_fields(ctx, "eligibility_check"))

\* one turn of the conversation; it ends when a turn returns answered
ProgressTurn ==
    /\ session_state # "answered"
    /\ progress.asked < MaxAsked
    /\ ChatTurn(ProgressMessages,
                IF turn.next_question = NoneVal
                THEN OpeningExtractions
                ELSE ReplyExtractions(AskedField(turn.next_question)),
                {"none"})
    /\ progress' = [asked |-> progress.asked
                                + IF turn'.kind = "question" THEN 1 ELSE 0,
                    missing_before |-> MissingCount(context)]

---------------------------------------------------------------------------
(* simple_api.py: one server process serving the turns of several          *)
(* conversations                                                           *)

\* the module globals before the first request; last_context is the
\* updated_context of the request handled last, which no global refers to
NoComponents ==
    [llm |-> NoneVal, data_extractor |-> NoneVal, question_prioritizer |-> NoneVal,
     dialogue_generator |-> NoneVal, vectorstore |-> NoneVal,
     last_context |-> EmptyDict]

\* init_components: the globals after the call and whether it raised; fault
\* names the constructor or call that raises when it is made
init_components(globals, fault) ==
    IF globals.llm # NoneVal
    THEN [globals |-> globals, raised |-> FALSE]
    ELSE IF fault = "ChatOpenAI"
    THEN [globals |-> globals, raised |-> TRUE]
    ELSE IF fault = "init_vectorstore"
    THEN [globals |-> [globals EXCEPT !.llm = "llm",
                                      !.data_extractor = "DataExtractor",
                                      !.question_prioritizer = "QuestionPrioritizer",
                                      !.dialogue_generator = "DialogueGenerator"],
          raised |-> TRUE]
    ELSE [globals |-> [globals EXCEPT !.llm = "llm",
                                      !.data_extractor = "DataExtractor",
                                      !.question_prioritizer = "QuestionPrioritizer",
                                      !.dialogue_generator = "DialogueGenerator",
                                      !.vectorstore = "vectorstore"],
          raised |-> FALSE]

\* a handler that goes on from the context of the request handled last
LastContext(request, globals) == globals.last_context

\* existing_context = request.context or {}
ExistingContext(request, globals) == request.context

\* chat_endpoint in a process: the response and the globals after the turn
served_chat_endpoint(globals, request, extraction_result, fault) ==
    LET init == init_components(globals, fault)
        served == [request EXCEPT !.context = ExistingContext(request, globals)]
        resp == IF init.raised
                THEN ErrorResponse(served, "init_components")
                ELSE chat_endpoint(served, extraction_result,
                                   IF fault = "process_query" THEN fault ELSE "none")
    IN [response |-> resp,
        globals |-> [init.globals EXCEPT !.last_context = resp.context_updates]]

\* what a turn gives its caller
Outcome(resp) ==
    [session_state |-> resp.session_state, context_updates |-> resp.context_updates,
     next_question |-> resp.next_question, raised |-> resp.raised]

---------------------------------------------------------------------------
(* Interleaved conversations: each caller sends the context and the session *)
(* state its own previous turn returned.                                    *)

Conversations == 1..NumConversations

ConcMessages == { << "dolg" >>, << "Chto", "dalshe" >> }

\* results for an eligibility check with no field and with every required
\* field, and one for an intent that requires nothing
ConcExtractions ==
    { Extraction(EmptyDict, EmptyDict, "eligibility_check"),
      Extraction([debtAmount |-> "v1", hasOverdue12Months |-> "v1",
                  monthlyIncome |-> "v1"], EmptyDict, "eligibility_check"),
      Extraction(EmptyDict, EmptyDict, "specific_problem") }

ConcFaults == {"none", "ChatOpenAI", "init_vectorstore", "process_query"}

InitConc ==
    /\ process = NoComponents
    /\ conv = [c \in Conversations |->
                  [context |-> EmptyDict, session_state |-> "initial",
                   outcome |-> [session_state |-> "none"],
                   alone |-> [session_state |-> "none"]]]

\* a turn of one conversation; alone is what the same request, extraction
\* result and fault give in a process that serves this conversation only
ConcTurn ==
    \E c \in Conversations, message \in ConcMessages,
       extraction_result \in ConcExtractions, fault \in ConcFaults :
        LET request == [message |-> message, context |-> conv[c].context,
                        session_state |-> conv[c].session_state]
            ownGlobals == [process EXCEPT !.last_context = conv[c].context]
        IN \E r \in {served_chat_endpoint(process, request, extraction_result, fault)},
              a \in {served_chat_endpoint(ownGlobals, request, extraction_result, fault)} :
              /\ process' = r.globals
              /\ conv' = [conv EXCEPT ![c] =
                             [context |-> r.response.context_updates,
                              session_state |-> r.response.session_state,
                              outcome |-> Outcome(r.response),
                              alone |-> Outcome(a.response)]]

---------------------------------------------------------------------------
(* The classification of the final answer (the answer composer behind      *)
(* process_query)                                                          *)

\* the configured monthly calculation index
monthly_calculation_index == 3692

\* the multiplier of the legal threshold
LimitFactor == 1600

\* limit = 1600 * monthly_calculation_index
classification_limit(index) == LimitFactor * index

\* a comparison that sends a debt equal to the limit to court
BelowLimit(debt_amount, limit) == debt_amount < limit

\* debt_amount <= limit
WithinLimit(debt_amount, limit) == debt_amount <= limit

\* the derived classification
classification(debt_amount, index) ==
    IF WithinLimit(debt_amount, classification_limit(index))
    THEN "out-of-court" ELSE "judicial"

\* the index of the configuration and the indexes of the years around it
ComposeIndexes == {3450, monthly_calculation_index, 3932}

\* the amounts of the example and the amounts around each limit
ComposeDebts ==
    {5000000, 6000000}
    \cup {classification_limit(index) + d :
             index \in ComposeIndexes, d \in (0 - ClassifyMargin)..ClassifyMargin}

InitCompose ==
    /\ composeIn \in [debt_amount : ComposeDebts, index : ComposeIndexes]
    /\ composeOut = [phase |-> "called"]

\* the classification computed for a final answer
ComposeCall ==
    /\ composeOut.phase = "called"
    /\ composeOut' = [phase |-> "returned",
                      limit |-> classification_limit(composeIn.index),
                      classification |-> classification(composeIn.debt_amount,
                                                        composeIn.index)]
    /\ UNCHANGED composeIn

---------------------------------------------------------------------------
(* query.py: process_chat_message                                          *)

greetings ==
    << << "zdravstvui" >>, << "privet" >>, << "dobryi", "den" >>,
       << "dobryi", "vecher" >>, << "dobroe", "utro" >>, << "zdorovo" >>,
       << "hi" >>, << "hello" >>, << "khochu", "na", "konsultatsiyu" >>,
       << "konsultatsiya" >> >>

ip_words ==
    << << "ip" >>, << "individualnyi", "predprinimatel" >>, << "ip", "status" >>,
       << "predprinimatel" >> >>

\* the list questions of process_chat_message
questions ==
    << "Can you tell the approximate amount of the debt?",
       "How long have you not been paying? How many months?",
       "Tell me about your work and income.",
       "Do you have real estate or other property?" >>

\* the fixed texts of process_chat_message
CanonicalGreeting == "Hello! I will help you with questions of bankruptcy."
IPResponse == "Bankruptcy as a private person is not available to an entrepreneur."
QueryErrorMessage == "An error occurred while processing the request. Start over."

\* any(greeting in message.lower() for greeting in greetings)
IsGreeting(message) == AnyIn(greetings, Lower(message))

\* any(ip_word in message.lower() for ip_word in [...])
IsEntrepreneur(message) == AnyIn(ip_words, Lower(message))

\* a greeting reply that starts the script at step 1
GreetingReplyStepOne ==
    [kind |-> "greeting",
     response |-> << CanonicalGreeting, questions[1] >>,
     session_state |-> "collecting_info",
     context_updates |-> [question_step |-> 1, answers |-> << >>],
     next_question |-> questions[1], completion_status |-> "collecting",
     analysis_called |-> FALSE, rag_called |-> FALSE]

\* step 1 of process_chat_message: the reply to a greeting
GreetingReply ==
    [kind |-> "greeting",
     response |-> << CanonicalGreeting, questions[1] >>,
     session_state |-> "collecting_info",
     context_updates |-> [question_step |-> 2, answers |-> << >>],
     next_question |-> questions[1], completion_status |-> "collecting",
     analysis_called |-> FALSE, rag_called |-> FALSE]

\* the disqualification reply (step 2, and step 4 when the analysis finds the status)
DisqualificationReply(context_updates, analysis_called) ==
    [kind |-> "disqualified", response |-> << IPResponse >>,
     session_state |-> "answered", context_updates |-> context_updates,
     next_question |-> NoneVal, completion_status |-> "complete",
     analysis_called |-> analysis_called, rag_called |-> FALSE]

\* analyze_client_answers returned None
NoAnalysis == [is_none |-> TRUE]

\* "if analyzed_data": neither None nor an empty dict
Truthy(analyzed_data) == analyzed_data # NoAnalysis /\ DOMAIN analyzed_data # {}

\* a script that skips a step
NextStepSkipping(current_step) == current_step + 2

\* updated_context['question_step'] = current_step + 1
NextStep(current_step) == current_step + 1

\* the caller's dict after the call. context.copy() is shallow: the list under
\* "answers" is shared with the copy, so answers.append(message) shows in the
\* caller's dict when it holds the list; the two early returns touch nothing
CallerContextAfter(message, ctx) ==
    IF IsGreeting(message) \/ IsEntrepreneur(message)
    THEN ctx
    ELSE IF Get(ctx, "question_step", 1) >= 2 /\ "answers" \in DOMAIN ctx
    THEN Put(ctx, "answers", Append(ctx["answers"], message))
    ELSE ctx

\* the original answers as client_data labels them, in either template
ClientData(answers) ==
    [debt_amount |-> answers[1], overdue_period |-> answers[2],
     work_and_income |-> answers[3], property |-> answers[4]]

\* steps 3 and 4 of process_chat_message; analyzed_data is what
\* analyze_client_answers returns, rag_fails whether query() raises
CollectOrAnswer(message, ctx, analyzed_data, rag_fails) ==
    LET current_step == Get(ctx, "question_step", 1)
        answers == IF current_step >= 2
                   THEN Append(Get(ctx, "answers", << >>), message)
                   ELSE Get(ctx, "answers", << >>)
        updated_context == IF current_step >= 2
                           THEN Put(ctx, "answers", answers)
                           ELSE ctx
    IN IF current_step >= 2 /\ current_step <= 5
       THEN [kind |-> "question", response |-> << questions[current_step - 1] >>,
             session_state |-> "collecting_info",
             context_updates |-> Put(updated_context, "question_step",
                                     NextStep(current_step)),
             next_question |-> questions[current_step - 1],
             completion_status |-> "collecting",
             analysis_called |-> FALSE, rag_called |-> FALSE]
       ELSE IF Len(answers) >= 4
       THEN IF Truthy(analyzed_data) /\ Get(analyzed_data, "special_status", NoneVal) = "IP"
            THEN DisqualificationReply(updated_context, TRUE)
            ELSE IF rag_fails
            THEN [kind |-> "raised", analysis_called |-> TRUE, rag_called |-> TRUE,
                  client_data |-> ClientData(answers)]
            ELSE [kind |-> "answer", response |-> << "rag_response" >>,
                  session_state |-> "answered", context_updates |-> updated_context,
                  next_question |-> NoneVal, completion_status |-> "complete",
                  analysis_called |-> TRUE, rag_called |-> TRUE,
                  client_data |-> ClientData(answers)]
       ELSE [kind |-> "error", response |-> << QueryErrorMessage >>,
             session_state |-> "error", context_updates |-> EmptyDict,
             next_question |-> NoneVal, completion_status |-> "error",
             analysis_called |-> FALSE, rag_called |-> FALSE]

\* the entrepreneur check made before the greeting check
process_chat_message_entrepreneur_first(message, ctx, analyzed_data, rag_fails) ==
    IF IsEntrepreneur(message)
    THEN DisqualificationReply(ctx, FALSE)
    ELSE IF IsGreeting(message)
    THEN GreetingReply
    ELSE CollectOrAnswer(message, ctx, analyzed_data, rag_fails)

\* process_chat_message: the response, or kind "raised" when the exception of
\* query() leaves the function
process_chat_message(message, ctx, analyzed_data, rag_fails) ==
    IF IsGreeting(message)
    THEN GreetingReply
    ELSE IF IsEntrepreneur(message)
    THEN DisqualificationReply(ctx, FALSE)
    ELSE CollectOrAnswer(message, ctx, analyzed_data, rag_fails)

---------------------------------------------------------------------------
(* The scripted conversation: the caller sends each turn the context the   *)
(* previous turn returned; a turn that raises returns nothing to persist.  *)

\* plain answers, a greeting, the entrepreneur keyword in capitals, alone,
\* after a plain word and after a greeting
QueryMessages ==
    { << "dolg" >>, << "dom" >>, << "Privet" >>, << "IP" >>,
      << "dolg", "IP" >>, << "Privet", "IP" >> }

AnalysisOutcomes == {NoAnalysis, [special_status |-> "IP"], [special_status |-> NoneVal]}

\* (ghost) no greeting yet, or a message with an entrepreneur keyword since;
\* greeted: a greeting was answered; disqualified: a disqualification reply
\* was given and no greeting was answered since
NoScript ==
    [started |-> FALSE, asked |-> << >>, replies |-> << >>,
     greeted |-> FALSE, disqualified |-> FALSE]

\* (ghost) the script after a turn that returned: a greeting starts it with the
\* question it asks; a plain message is the reply to the question asked last
ScriptAfter(script, message, resp) ==
    IF resp.kind = "greeting"
    THEN [started |-> TRUE, asked |-> << resp.next_question >>, replies |-> << >>,
          greeted |-> TRUE, disqualified |-> FALSE]
    ELSE IF ~script.started \/ IsEntrepreneur(message)
    THEN [NoScript EXCEPT !.greeted = script.greeted,
                          !.disqualified = script.disqualified
                                              \/ resp.kind = "disqualified"]
    ELSE [started |-> TRUE, greeted |-> TRUE,
          disqualified |-> script.disqualified \/ resp.kind = "disqualified",
          asked |-> IF resp.next_question # NoneVal
                    THEN Append(script.asked, resp.next_question)
                    ELSE script.asked,
          replies |-> Append(script.replies,
                             [question |-> script.asked[Len(script.asked)],
                              message |-> message])]

InitQuery ==
    /\ q_context = EmptyDict
    /\ q_state = "initial"
    /\ q_turn = [kind |-> "none"]
    /\ q_script = NoScript

QueryTurn ==
    \E message \in QueryMessages, analyzed_data \in AnalysisOutcomes, rag_fails \in BOOLEAN :
        \E resp \in {process_chat_message(message, q_context, analyzed_data, rag_fails)} :
            IF resp.kind = "raised"
            THEN /\ q_turn' = [kind |-> "raised", message |-> message,
                               prior_context |-> q_context,
                               analysis_called |-> resp.analysis_called,
                               rag_called |-> resp.rag_called,
                               client_data |-> resp.client_data,
                               caller_context |-> CallerContextAfter(message, q_context)]
                 /\ UNCHANGED << q_context, q_state, q_script >>
            ELSE /\ Len(Get(resp.context_updates, "answers", << >>)) <= MaxAnswers
                 /\ q_context' = resp.context_updates
                 /\ q_state' = resp.session_state
                 /\ q_turn' = [kind |-> resp.kind, message |-> message,
                               prior_context |-> q_context,
                               response |-> resp.response,
                               next_question |-> resp.next_question,
                               analysis_called |-> resp.analysis_called,
                               rag_called |-> resp.rag_called,
                               client_data |-> IF resp.kind = "answer"
                                               THEN resp.client_data ELSE EmptyDict,
                               caller_context |-> CallerContextAfter(message, q_context)]
                 /\ q_script' = ScriptAfter(q_script, message, resp)

---------------------------------------------------------------------------
(* api_server.py: chat_endpoint                                            *)

\* QuestionTemplate.templates: the questions get_next_questions uses
ServerQuestion ==
    [debt_amount |-> "To answer precisely: what is your total debt?",
     income_amount |-> "What is your monthly income?",
     income_stability |-> "Is your income stable or irregular?",
     has_overdue |-> "Do you have loans overdue more than 12 months?"]

\* the keyword lists of get_next_questions and should_offer_products
work_words == << << "rabota" >>, << "dokhod" >>, << "zarplata" >>, << "ofitsialno" >> >>
debt_words == << << "dolg" >>, << "kredit" >>, << "zaim" >>, << "bankrotstvo" >> >>
help_words == << << "chto", "delat" >>, << "kak", "byt" >>, << "pomogite" >> >>
offer_keywords ==
    << << "kak" >>, << "protsedura" >>, << "skolko", "vremeni" >>, << "poshagovo" >>,
       << "instruktsiya" >>, << "samostoyatelno" >> >>

\* questions.append(q) when the key is not in answers
AskUnless(qs, answers, key, q) == IF key \in DOMAIN answers THEN qs ELSE Append(qs, q)

\* QuestionTemplate.get_next_questions
get_next_questions(ctx, user_message) ==
    LET answers == Get(ctx, "answersReceived", EmptyDict)
        message_lower == Lower(user_message)
        q0 == << >>
        q1 == IF AnyIn(work_words, message_lower)
              THEN AskUnless(AskUnless(q0, answers, "incomeAmount",
                                       ServerQuestion.income_amount),
                             answers, "incomeStable", ServerQuestion.income_stability)
              ELSE q0
        q2 == IF AnyIn(debt_words, message_lower)
              THEN AskUnless(AskUnless(q1, answers, "debtAmount",
                                       ServerQuestion.debt_amount),
                             answers, "hasOverdue12Months", ServerQuestion.has_overdue)
              ELSE q1
        q3 == IF AnyIn(help_words, message_lower)
              THEN IF "debtAmount" \notin DOMAIN answers
                   THEN Append(q2, ServerQuestion.debt_amount)
                   ELSE IF "incomeAmount" \notin DOMAIN answers
                   THEN Append(q2, ServerQuestion.income_amount)
                   ELSE q2
              ELSE q2
    IN SubSeq(q3, 1, IF Len(q3) < 2 THEN Len(q3) ELSE 2)

\* should_offer_products
should_offer_products(message, ctx) == AnyIn(offer_keywords, Lower(message))

\* chat_endpoint of api_server.py; rag_fails: process_query raises
server_chat_endpoint(request, rag_fails) ==
    LET qs == get_next_questions(request.context, request.message)
        offer_products == should_offer_products(request.message, request.context)
    IN IF qs # << >> /\ request.session_state \in {"initial", "collecting_info"}
       THEN [kind |-> "question", response |-> qs[1], questions |-> qs,
             session_state |-> "collecting_info",
             context_updates |-> [questionsAsked |-> qs], offer_products |-> FALSE]
       ELSE IF rag_fails
       THEN [kind |-> "http_500"]
       ELSE [kind |-> "answer", response |-> "rag_response", questions |-> << >>,
             session_state |-> IF offer_products THEN "offering_product" ELSE "answered",
             context_updates |-> EmptyDict, offer_products |-> offer_products]

---------------------------------------------------------------------------
(* The api_server conversation: the caller sends each turn the session      *)
(* state the previous turn returned and the answers it has collected.       *)

ServerMessages ==
    { << "dolg" >>, << "rabota" >>, << "Kak", "byt" >>, << "protsedura" >>,
      << "pomogite" >>, << "Chto", "dalshe" >>, << "spasibo" >>,
      << "dolg", "pomogite" >> }

\* the keys of answersReceived get_next_questions looks at
ServerAnswerKeys == {"debtAmount", "incomeAmount", "incomeStable", "hasOverdue12Months"}

ServerContexts ==
    {EmptyDict} \cup {[answersReceived |-> a] : a \in Dicts(ServerAnswerKeys, {"v1"})}

InitServer ==
    /\ srv_state = "initial"
    /\ srv_turn = [kind |-> "none"]

\* one turn; a turn answered with HTTP 500 returns no session state
ServerTurn ==
    \E message \in ServerMessages, ctx \in ServerContexts, rag_fails \in BOOLEAN :
        \E resp \in {server_chat_endpoint([message |-> message, context |-> ctx,
                                            session_state |-> srv_state], rag_fails)} :
            IF resp.kind = "http_500"
            THEN /\ srv_turn' = [kind |-> "http_500", message |-> message,
                                 context |-> ctx, arrived |-> srv_state]
                 /\ UNCHANGED srv_state
            ELSE /\ srv_state' = resp.session_state
                 /\ srv_turn' = [kind |-> resp.kind, message |-> message,
                                 context |-> ctx,
                                 arrived |-> srv_state, response |-> resp.response,
                                 questions |-> resp.questions,
                                 context_updates |-> resp.context_updates,
                                 offer_products |-> resp.offer_products]

---------------------------------------------------------------------------
(* question_prioritizer.py: QuestionPrioritizer.get_priority_by_intent     *)

\* the dict literal base_priority
base_priority ==
    [eligibility_check |-> << "debtAmount", "hasOverdue12Months", "monthlyIncome",
                              "employmentType" >>,
     how_to_start |-> << "debtAmount", "hasOverdue12Months", "employmentType",
                         "hasProperty" >>,
     documentation |-> << "employmentType", "hasProperty", "hasCollateral" >>,
     consequences |-> << "hasProperty", "hasCar", "monthlyIncome" >>,
     specific_problem |-> << "debtAmount", "hasOverdue12Months" >>]

\* the default of base_priority.get(intent, [...])
default_priority == << "debtAmount", "hasOverdue12Months" >>

\* the keyword lists of the three adjustments
income_words == << << "zarplata" >>, << "dokhod" >>, << "rabota" >>, << "pensiya" >> >>
property_words ==
    << << "kvartira" >>, << "dom" >>, << "mashina" >>, << "nedvizhimost" >> >>
overdue_words ==
    << << "prosrochka" >>, << "kollektor" >>, << "ne", "plachu" >>, << "zaderzhka" >> >>

\* list.remove(x): the list without the first occurrence of x
ListRemove(xs, x) ==
    LET i == CHOOSE i \in 1..Len(xs) : xs[i] = x /\ \A j \in 1..(i - 1) : xs[j] # x
    IN SubSeq(xs, 1, i - 1) \o SubSeq(xs, i + 1, Len(xs))

\* list.insert(index, x) for index >= 0: x is put before the element at the
\* index, at the end when the list is shorter
ListInsert(xs, index, x) ==
    LET at == IF index > Len(xs) THEN Len(xs) ELSE index
    IN SubSeq(xs, 1, at) \o << x >> \o SubSeq(xs, at + 1, Len(xs))

\* if field in priority_list: priority_list.remove(field); priority_list.insert(index, field)
MoveTo(priority_list, field, index) ==
    IF InList(field, priority_list)
    THEN ListInsert(ListRemove(priority_list, field), index, field)
    ELSE priority_list

\* the adjustment for income keywords
PromoteIncome(priority_list) ==
    MoveTo(MoveTo(priority_list, "monthlyIncome", 1), "employmentType", 0)

\* the adjustment for property keywords
PromoteProperty(priority_list) ==
    MoveTo(MoveTo(priority_list, "hasProperty", 1), "hasCar", 1)

\* an adjustment that puts the overdue field second
PromoteOverdueSecond(priority_list) == MoveTo(priority_list, "hasOverdue12Months", 1)

\* the adjustment for overdue and collector keywords
PromoteOverdue(priority_list) == MoveTo(priority_list, "hasOverdue12Months", 0)

\* a base_priority kept between the calls
KeptBasePriority(kept) == kept

\* base_priority = {...}: the literal builds new lists in every call
NewBasePriority(kept) == base_priority

\* the keyword groups a message triggers
Triggered(user_message) ==
    LET message_lower == Lower(user_message)
    IN {g \in {"income", "property", "overdue"} :
           \/ g = "income" /\ AnyIn(income_words, message_lower)
           \/ g = "property" /\ AnyIn(property_words, message_lower)
           \/ g = "overdue" /\ AnyIn(overdue_words, message_lower)}

\* get_priority_by_intent on the prioritizer's objects: the list it returns and
\* the objects after the call (kept is the base_priority of the call before)
RankObjects(heap, intent, user_message) ==
    LET bp == NewBasePriority(heap.base_priority)
        priority_list == Get(bp, intent, default_priority)
        groups == Triggered(user_message)
        afterIncome == IF "income" \in groups THEN PromoteIncome(priority_list)
                       ELSE priority_list
        afterProperty == IF "property" \in groups THEN PromoteProperty(afterIncome)
                         ELSE afterIncome
        afterOverdue == IF "overdue" \in groups THEN PromoteOverdue(afterProperty)
                        ELSE afterProperty
    IN [result |-> afterOverdue,
        heap |-> [heap EXCEPT !.base_priority =
                     IF intent \in DOMAIN bp THEN [bp EXCEPT ![intent] = afterOverdue]
                     ELSE bp]]

\* get_priority_by_intent
get_priority_by_intent(intent, user_message) ==
    RankObjects([base_priority |-> base_priority], intent, user_message).result

---------------------------------------------------------------------------
(* Re-ranking calls: get_priority_by_intent called again and again on one  *)
(* prioritizer                                                             *)

\* messages with no keyword, with keywords of one group (one in capitals, one of
\* two words, its words also the other way round) and of several groups
RankMessages ==
    { << >>, << "dolg" >>, << "plachu", "ne" >>,
      << "zarplata" >>, << "Rabota" >>, << "dokhod", "dolg" >>,
      << "dom" >>, << "mashina" >>,
      << "kollektor" >>, << "ne", "plachu" >>, << "prosrochka" >>,
      << "zarplata", "dom" >>, << "zarplata", "kollektor" >>, << "dom", "kollektor" >>,
      << "zaderzhka", "pensiya" >>, << "ne", "plachu", "kvartira" >>,
      << "zarplata", "dom", "kollektor" >>, << "kollektor", "dom", "zarplata" >> }

\* the prioritizer after __init__; no call has built a base_priority yet
InitRank ==
    /\ rank_heap = [base_priority |-> base_priority,
                    required_fields |-> required_fields,
                    question_templates |-> question_templates]
    /\ rank_turn = [kind |-> "none"]

RankCall ==
    \E intent \in PrioIntents, user_message \in RankMessages :
        \E r \in {RankObjects(rank_heap, intent, user_message)} :
            /\ rank_heap' = r.heap
            /\ rank_turn' = [kind |-> "call", intent |-> intent,
                             user_message |-> user_message, result |-> r.result,
                             left_before |-> rank_heap.base_priority]

---------------------------------------------------------------------------
(* Merge harness: merge_context applied to every bounded (context, extraction) *)

MergeFields == FieldPrefix(NumMergeFields)

\* extraction results: extract_data returns whatever JSON the model produced,
\* so the keys extracted_data and confidence may each be missing
MergeExtractions ==
    LET eds == Dicts(MergeFields, Values \cup {NoneVal})
        cfs == Dicts(MergeFields, Confs)
    IN {[extracted_data |-> ed, confidence |-> cf, intent |-> "eligibility_check"] :
            ed \in eds, cf \in cfs}
       \cup {[extracted_data |-> ed, intent |-> "eligibility_check"] : ed \in eds}
       \cup {[confidence |-> cf, intent |-> "eligibility_check"] : cf \in cfs}

InitMerge ==
    /\ mergeIn \in [existing_context : Dicts(MergeFields, Values \cup {NoneVal}),
                    new_extraction : MergeExtractions]
    /\ mergeOut = [phase |-> "called"]

\* a call of merge_context: its result and the caller's dict after the call
MergeCall ==
    /\ mergeOut.phase = "called"
    /\ \E r \in {MergeObjects(mergeIn.existing_context, mergeIn.new_extraction)} :
          mergeOut' = [phase |-> "returned", merged |-> r.merged,
                       existing_context |-> r.existing_context]
    /\ UNCHANGED mergeIn

\* the result merged once more with the same extraction result
MergeAgain ==
    /\ mergeOut.phase = "returned"
    /\ mergeOut' = [phase |-> "remerged", merged |-> mergeOut.merged,
                    existing_context |-> mergeOut.existing_context,
                    remerged |-> merge_context(mergeOut.merged, mergeIn.new_extraction)]
    /\ UNCHANGED mergeIn

---------------------------------------------------------------------------
(* Specifications                                                          *)

\* the values the variables of the other parts keep while one part runs
IdleMerge == mergeIn = EmptyDict /\ mergeOut = [phase |-> "idle"]
IdlePrio == prioIn = EmptyDict /\ prioOut = [phase |-> "idle"]
IdleChat ==
    /\ context = EmptyDict
    /\ session_state = "initial"
    /\ turn = [kind |-> "idle"]
    /\ storedConf = EmptyDict
IdleQuery ==
    /\ q_context = EmptyDict
    /\ q_state = "initial"
    /\ q_turn = [kind |-> "idle"]
    /\ q_script = EmptyDict
IdleExtract == extractIn = EmptyDict /\ extractOut = [phase |-> "idle"]
IdleRank == rank_heap = EmptyDict /\ rank_turn = [kind |-> "idle"]
IdleServer == srv_state = "initial" /\ srv_turn = [kind |-> "idle"]
IdleCompose == composeIn = EmptyDict /\ composeOut = [phase |-> "idle"]
IdleConc == process = EmptyDict /\ conv = EmptyDict
IdleProgress == progress = [asked |-> 0, missing_before |-> 0]

\* merge_context on every bounded input
NextMerge == (MergeCall \/ MergeAgain)
                /\ UNCHANGED << prioVars, chatVars, queryVars, extractVars, serverVars, rankVars, concVars, composeVars, progressVars >>
MergeInit == InitMerge /\ IdlePrio /\ IdleChat /\ IdleQuery /\ IdleExtract /\ IdleServer /\ IdleRank /\ IdleConc /\ IdleCompose /\ IdleProgress
SpecMerge == MergeInit /\ [][NextMerge]_vars

\* the /chat conversation
Next == ChatTurn(ChatMessages, ChatExtractions, ChatFaults)
           /\ UNCHANGED << mergeVars, prioVars, queryVars, extractVars, serverVars, rankVars, concVars, composeVars, progressVars >>
Init == IdleMerge /\ IdlePrio /\ InitChat /\ IdleQuery /\ IdleExtract /\ IdleServer /\ IdleRank /\ IdleConc /\ IdleCompose /\ IdleProgress
Spec == Init /\ [][Next]_vars

\* the /chat conversation with every value and confidence for a few fields
NextStore == ChatTurn(StoreMessages, StoreExtractions, StoreFaults)
                /\ UNCHANGED << mergeVars, prioVars, queryVars, extractVars, serverVars, rankVars, concVars, composeVars, progressVars >>
SpecStore == Init /\ [][NextStore]_vars

\* the /chat conversation of a caller who answers what is asked; the caller
\* keeps replying until a turn returns answered
NextProgress == ProgressTurn
                   /\ UNCHANGED << mergeVars, prioVars, queryVars, extractVars, serverVars, rankVars, concVars, composeVars >>
SpecProgress == Init /\ [][NextProgress]_vars /\ WF_vars(NextProgress)

\* extract_data on every bounded input
NextExtract == (ExtractCall \/ ExtractMerge)
                  /\ UNCHANGED << mergeVars, prioVars, chatVars, queryVars, serverVars, rankVars, concVars, composeVars, progressVars >>
ExtractInit ==
    IdleMerge /\ IdlePrio /\ IdleChat /\ IdleQuery /\ InitExtract /\ IdleServer /\ IdleRank /\ IdleConc /\ IdleCompose /\ IdleProgress
SpecExtract == ExtractInit /\ [][NextExtract]_vars

\* the conversation of api_server.py
NextServer == ServerTurn
                 /\ UNCHANGED << mergeVars, prioVars, chatVars, queryVars, extractVars, rankVars, concVars, composeVars, progressVars >>
ServerInit ==
    IdleMerge /\ IdlePrio /\ IdleChat /\ IdleQuery /\ IdleExtract /\ InitServer /\ IdleRank /\ IdleConc /\ IdleCompose /\ IdleProgress
SpecServer == ServerInit /\ [][NextServer]_vars

\* the scripted conversation of query.py
NextQuery == QueryTurn
                /\ UNCHANGED << mergeVars, prioVars, chatVars, extractVars, serverVars, rankVars, concVars, composeVars, progressVars >>
QueryInit == IdleMerge /\ IdlePrio /\ IdleChat /\ InitQuery /\ IdleExtract /\ IdleServer /\ IdleRank /\ IdleConc /\ IdleCompose /\ IdleProgress
SpecQuery == QueryInit /\ [][NextQuery]_vars

\* get_priority_by_intent called again and again
NextRank == RankCall
               /\ UNCHANGED << mergeVars, prioVars, chatVars, queryVars, extractVars,
                               serverVars, concVars, composeVars, progressVars >>
RankInit ==
    IdleMerge /\ IdlePrio /\ IdleChat /\ IdleQuery /\ IdleExtract /\ IdleServer /\ InitRank /\ IdleConc /\ IdleCompose /\ IdleProgress
SpecRank == RankInit /\ [][NextRank]_vars

\* should_ask_followup_questions on every bounded input
NextFollowup == FollowupCall
                   /\ UNCHANGED << mergeVars, chatVars, queryVars, extractVars, serverVars,
                                   rankVars, concVars, composeVars, progressVars >>
FollowupInit ==
    IdleMerge /\ InitFollowup /\ IdleChat /\ IdleQuery /\ IdleExtract /\ IdleServer /\ IdleRank /\ IdleConc /\ IdleCompose /\ IdleProgress
SpecFollowup == FollowupInit /\ [][NextFollowup]_vars

\* the turns of several conversations interleaved in one process
NextConc == ConcTurn
               /\ UNCHANGED << mergeVars, prioVars, chatVars, queryVars, extractVars,
                               serverVars, rankVars, composeVars, progressVars >>
ConcInit ==
    IdleMerge /\ IdlePrio /\ IdleChat /\ IdleQuery /\ IdleExtract /\ IdleServer /\ IdleRank /\ InitConc /\ IdleCompose /\ IdleProgress
SpecConc == ConcInit /\ [][NextConc]_vars

\* the classification on every bounded input
NextCompose == ComposeCall
                  /\ UNCHANGED << mergeVars, prioVars, chatVars, queryVars, extractVars,
                                  serverVars, rankVars, concVars, progressVars >>
ComposeInit ==
    IdleMerge /\ IdlePrio /\ IdleChat /\ IdleQuery /\ IdleExtract /\ IdleServer /\ IdleRank /\ IdleConc /\ InitCompose /\ IdleProgress
SpecCompose == ComposeInit /\ [][NextCompose]_vars

\* the prioritizer on every bounded input
NextPrio == PrioCall
               /\ UNCHANGED << mergeVars, chatVars, queryVars, extractVars, serverVars, rankVars, concVars, composeVars, progressVars >>
PrioInit == IdleMerge /\ InitPrio /\ IdleChat /\ IdleQuery /\ IdleExtract /\ IdleServer /\ IdleRank /\ IdleConc /\ IdleCompose /\ IdleProgress
SpecPrio == PrioInit /\ [][NextPrio]_vars

---------------------------------------------------------------------------
(* Claims about merge_context (SpecMerge)                                  *)

\* the non-null fields the extraction supplies
MergeSupplied ==
    LET ed == Get(mergeIn.new_extraction, "extracted_data", EmptyDict)
    IN {f \in DOMAIN ed : ed[f] # NoneVal}

\* the merge rule, field by field, given which supplied fields count as confident
MergeRule(Confident(_)) ==
    LET C == mergeIn.existing_context
        ed == Get(mergeIn.new_extraction, "extracted_data", EmptyDict)
        R == mergeOut.merged
    IN mergeOut.phase = "returned" =>
          /\ DOMAIN R = (DOMAIN C) \cup MergeSupplied
          /\ \A f \in MergeSupplied :
                IF Confident(f) \/ f \notin DOMAIN C
                THEN R[f] = ed[f]
                ELSE R[f] = C[f]
          /\ \A f \in (DOMAIN C) \ MergeSupplied : R[f] = C[f]

\* C1 as stated: a supplied field replaces the stored one only if the extraction
\* gives the field a confidence and that confidence exceeds 0.5 (or the field is
\* absent from C); every other field is as in C and there are no other keys.
C1_MergeAsStated ==
    LET cf == Get(mergeIn.new_extraction, "confidence", EmptyDict)
    IN MergeRule(LAMBDA f : f \in DOMAIN cf /\ cf[f] > 5)

\* C1 amended: the same rule, where a supplied field for which the extraction
\* gives no confidence counts with confidence 0.8 and therefore replaces the
\* stored value.
C1_MergeRule ==
    LET cf == Get(mergeIn.new_extraction, "confidence", EmptyDict)
    IN MergeRule(LAMBDA f : IF f \in DOMAIN cf THEN cf[f] > 5 ELSE TRUE)

\* C1 witness: merge_context returned after keeping one stored field against a
\* low-confidence value and replacing another by a value given without confidence
C1_Witness ==
    LET C == mergeIn.existing_context
        ed == Get(mergeIn.new_extraction, "extracted_data", EmptyDict)
        cf == Get(mergeIn.new_extraction, "confidence", EmptyDict)
        R == mergeOut.merged
    IN /\ mergeOut.phase = "returned"
       /\ \E f \in MergeSupplied \cap DOMAIN C :
             f \in DOMAIN cf /\ cf[f] <= 5 /\ C[f] # ed[f] /\ R[f] = C[f]
       /\ \E g \in MergeSupplied \cap DOMAIN C :
             g \notin DOMAIN cf /\ C[g] # ed[g] /\ R[g] = ed[g]

\* C13: merging the result of a merge once more with the same extraction
\* result gives the same context.
C13_RemergeIdempotent ==
    mergeOut.phase = "remerged" => mergeOut.remerged = mergeOut.merged

\* C13 witness: a re-merge after a merge that filled an absent field from a
\* value of confidence 0.5 or less
C13_Witness ==
    LET C == mergeIn.existing_context
        cf == Get(mergeIn.new_extraction, "confidence", EmptyDict)
    IN /\ mergeOut.phase = "remerged"
       /\ \E f \in MergeSupplied \ DOMAIN C :
             f \in DOMAIN cf /\ cf[f] <= 5 /\ f \in DOMAIN mergeOut.remerged

\* C14: after merge_context returns, the dict the caller passed in has the
\* keys and values it had before the call.
C14_CallerContextUnchanged ==
    mergeOut.phase = "returned" => mergeOut.existing_context = mergeIn.existing_context

\* C14 witness: merge_context returned a context that differs from the one
\* passed in
C14_Witness ==
    /\ mergeOut.phase = "returned"
    /\ mergeOut.merged # mergeIn.existing_context
    /\ mergeOut.existing_context = mergeIn.existing_context

\* C15 as stated: a field unknown in the base context (its key absent, or
\* present with a null value) is filled with any non-null incoming value
\* whatever its confidence, and a null-valued key counts as missing for the
\* sufficiency check.
C15_UnknownAlwaysFilled ==
    LET C == mergeIn.existing_context
        ed == Get(mergeIn.new_extraction, "extracted_data", EmptyDict)
    IN mergeOut.phase = "returned" =>
          /\ \A f \in MergeSupplied :
                (f \notin DOMAIN C \/ C[f] = NoneVal) => mergeOut.merged[f] = ed[f]
          /\ \A f \in DOMAIN C : C[f] = NoneVal => FieldMissing(C, f)

---------------------------------------------------------------------------
(* Claims about extract_data (SpecExtract)                                 *)

\* the message holds one of the words the fallback chooses another intent by
SaysFallbackIntent ==
    \E i \in 1..Len(extractIn.user_message) :
        extractIn.user_message[i] \in {"nachat", "dokumenty", "spravki"}

\* C12 as stated: whatever the collaborator does, extract_data returns a
\* mapping with the keys extracted_data, intent and confidence, and a result
\* made by the fallback has the intent eligibility_check unless an intent
\* keyword of the fallback matched.
C12_AlwaysWellFormed ==
    extractOut.phase = "returned" =>
        /\ extractOut.result # NonDictExtraction
        /\ {"extracted_data", "intent", "confidence"} \subseteq DOMAIN extractOut.result
        /\ (extractOut.fallback /\ ~SaysFallbackIntent) =>
              extractOut.result.intent = "eligibility_check"

\* C37: when extract_data fell back and its result is merged, every field of
\* the prior context keeps its prior value, and the merged context differs
\* from the prior one only by a debtAmount the prior context had no key for.
C37_FallbackNeverOverwrites ==
    (extractOut.phase = "merged" /\ extractOut.fallback) =>
        LET prior == extractIn.existing_context
            merged == extractOut.updated_context
        IN /\ ~extractOut.raised
           /\ \A k \in DOMAIN prior : k \in DOMAIN merged /\ merged[k] = prior[k]
           /\ (DOMAIN merged) \ (DOMAIN prior) \subseteq {"debtAmount"}
           /\ merged # prior => "debtAmount" \notin DOMAIN prior

\* C37 witness: the fallback found an amount in the message, the prior context
\* knew another debtAmount, and the merged context is the prior one
C37_Witness ==
    /\ extractOut.phase = "merged"
    /\ extractOut.fallback
    /\ "debtAmount" \in DOMAIN extractOut.result.extracted_data
    /\ "debtAmount" \in DOMAIN extractIn.existing_context
    /\ extractIn.existing_context["debtAmount"] = "v1"
    /\ extractOut.updated_context = extractIn.existing_context

---------------------------------------------------------------------------
(* Claims about the QuestionPrioritizer (SpecPrio)                         *)

\* the required set of the intent the harness was called with
PrioRequired ==
    LET required == Get(required_fields, prioIn.intent, << >>)
    IN {required[i] : i \in 1..Len(required)}

\* a field is known in a context: its key is present with a non-null value
Known(ctx, f) == f \in DOMAIN ctx /\ ctx[f] # NoneVal

\* the context without the key f
Without(ctx, f) == [k \in (DOMAIN ctx) \ {f} |-> ctx[k]]

\* C3: has_sufficient_info(C, intent) is true iff every required field of the
\* intent is present in C with a non-null value; and when C is sufficient for an
\* intent with a non-empty required set, removing or nulling any one required
\* field makes it false.
C3_SufficiencyExact ==
    LET C == prioIn.context
        intent == prioIn.intent
    IN (prioOut.phase = "returned" /\ intent \in Intents) =>
          /\ prioOut.sufficient = (\A f \in PrioRequired : Known(C, f))
          /\ (prioOut.sufficient /\ PrioRequired # {}) =>
                \A f \in PrioRequired :
                    /\ ~has_sufficient_info(Without(C, f), intent)
                    /\ ~has_sufficient_info(Put(C, f, NoneVal), intent)

\* C3 witness: a context found sufficient for an intent that requires four
\* fields, holding also a null-valued field outside the required set
C3_Witness ==
    /\ prioOut.phase = "returned"
    /\ prioIn.intent = "how_to_start"
    /\ prioOut.sufficient
    /\ \E f \in DOMAIN prioIn.context : prioIn.context[f] = NoneVal

\* the position of a field in the required list of the intent of the call
RequiredPosition(f) ==
    LET required == Get(required_fields, prioIn.intent, << >>)
    IN CHOOSE i \in 1..Len(required) : required[i] = f

\* C25: _get_missing_critical_fields returns exactly the required fields of the
\* intent that are absent or null in C, each once, in the order the requirement
\* set declares them; for an intent outside the requirement set it returns the
\* empty list.
C25_MissingInDeclaredOrder ==
    prioOut.phase = "returned" =>
        LET missing == prioOut.missing
        IN /\ \A i \in 1..Len(missing) :
                 missing[i] \in PrioRequired /\ ~Known(prioIn.context, missing[i])
           /\ \A f \in PrioRequired :
                 ~Known(prioIn.context, f) =>
                     Cardinality({i \in 1..Len(missing) : missing[i] = f}) = 1
           /\ \A i, j \in 1..Len(missing) :
                 i < j => RequiredPosition(missing[i]) < RequiredPosition(missing[j])
           /\ prioIn.intent \notin {"eligibility_check", "how_to_start", "documentation",
                                    "consequences", "specific_problem"}
                 => missing = << >>

\* C25 witness: a call for how_to_start with the first required field known,
\* the second null, the third known and the fourth absent
C25_Witness ==
    /\ prioOut.phase = "returned"
    /\ prioIn.intent = "how_to_start"
    /\ Known(prioIn.context, "debtAmount")
    /\ "hasOverdue12Months" \in DOMAIN prioIn.context
    /\ prioIn.context["hasOverdue12Months"] = NoneVal
    /\ Known(prioIn.context, "employmentType")
    /\ "hasProperty" \notin DOMAIN prioIn.context
    /\ prioOut.missing = << "hasOverdue12Months", "hasProperty" >>

\* the catalog positions whose field is missing for the intent and whose
\* required_for list is empty or contains the intent
PrioQualifying ==
    {i \in 1..Len(question_templates) :
        LET q == question_templates[i]
        IN /\ q.field \in PrioRequired
           /\ ~Known(prioIn.context, q.field)
           /\ (q.required_for = << >> \/ InList(prioIn.intent, q.required_for))}

\* C4: when some descriptor qualifies, get_next_question returns the qualifying
\* descriptor of numerically lowest priority, the one declared first among equals.
C4_LowestPriorityFirst ==
    (prioOut.phase = "returned" /\ PrioQualifying # {}) =>
        \E i \in PrioQualifying :
            /\ prioOut.next_question = question_templates[i]
            /\ \A j \in PrioQualifying :
                  \/ question_templates[i].priority < question_templates[j].priority
                  \/ /\ question_templates[i].priority = question_templates[j].priority
                     /\ i <= j

\* C4 witness: several descriptors qualify, the first of the catalog does not,
\* and the question returned is the one for the overdue field
C4_Witness ==
    /\ prioOut.phase = "returned"
    /\ Cardinality(PrioQualifying) >= 2
    /\ 1 \notin PrioQualifying
    /\ prioOut.next_question.key = "overdue_check"

\* C5 as stated: for every intent of the requirement set, get_next_question
\* returns None exactly when the context is sufficient, and a returned question
\* asks for one of the missing required fields.
C5_NoneIffSufficient ==
    (prioOut.phase = "returned" /\ prioIn.intent \in Intents) =>
        /\ (prioOut.next_question.key = NoneVal) = prioOut.sufficient
        /\ prioOut.next_question.key # NoneVal =>
              InList(prioOut.next_question.field, prioOut.missing)

---------------------------------------------------------------------------
(* Claims about the stored values of a /chat conversation (SpecStore)      *)

\* C2 as stated: a stored value that was set with a confidence above 0.5 is
\* replaced by a later turn only by a value whose confidence is at least the
\* confidence the stored value was set with.
C2_NeverLoweredAsStated ==
    \A f \in DOMAIN turn.replaced :
        turn.replaced[f] > 5 => storedConf[f] >= turn.replaced[f]

\* C2 amended: a stored value is replaced by a later turn only by a value whose
\* confidence (0.8 when the extraction gives none) exceeds 0.5, whatever the
\* confidence the stored value was set with; a value of confidence 0.5 or less
\* never replaces it.
C2_ReplacedOnlyAboveThreshold ==
    \A f \in DOMAIN turn.replaced : storedConf[f] > 5

\* C2 witness: a turn replaced a value that had been stored with confidence 0.9
\* by a value of confidence 0.6
C2_Witness ==
    \E f \in DOMAIN turn.replaced : turn.replaced[f] = 9 /\ storedConf[f] = 6

---------------------------------------------------------------------------
(* Claims about the /chat turn (Spec)                                      *)

\* C6 as stated (scenario 2): a normal turn that finds debtAmount and
\* hasOverdue12Months known, learns monthlyIncome, has intent eligibility_check
\* and leaves employmentType unknown returns the employment-type question and
\* the session state collecting_info.
C6_Scenario2AsksEmployment ==
    [][ ( /\ Known(context, "debtAmount")
          /\ Known(context, "hasOverdue12Months")
          /\ ~Known(context, "monthlyIncome")
          /\ turn'.kind \notin {"error", "followup"}
          /\ Known(context', "monthlyIncome")
          /\ Get(context', "userIntent", NoneVal) = "eligibility_check"
          /\ ~Known(context', "employmentType") )
        => ( /\ turn'.next_question = question_templates[4].question
             /\ session_state' = "collecting_info" ) ]_vars

\* C11 as stated: every fact (non-null field) known before a turn is still
\* known after it, whether the turn succeeds or fails.
C11_FactsNeverLost ==
    [][ \A f \in FactsOf(context) :
            context[f] # NoneVal => (f \in DOMAIN context' /\ context'[f] # NoneVal) ]_vars

C10_RagFailureStillAnswered ==
    turn.raised = "process_query" =>
        /\ turn.response = ApologyMessage
        /\ session_state = "answered"

\* the intent the last turn worked with
TurnIntent == Get(context, "userIntent", NoneVal)

\* the last turn arrived in answered with a message of the follow-up keywords
FollowupAfterAnswer == turn.arrived = "answered" /\ is_followup_question(turn.message)

\* the last turn merged the extraction and found the merged context
\* insufficient for the intent
MergedInsufficient ==
    /\ turn.kind # "none"
    /\ turn.raised = "none"
    /\ ~has_sufficient_info(context, TurnIntent)

\* what C17 says of a turn whose merged context is insufficient
InsufficientOutcome ==
    IF get_next_question(context, TurnIntent) = NoQuestion
    THEN /\ session_state = "answered"
         /\ turn.response = FallbackMessage
         /\ turn.next_question = NoneVal
    ELSE /\ session_state = "collecting_info"
         /\ turn.next_question = get_next_question(context, TurnIntent).question

SufficiencyPassed ==
    \E i \in 1..Len(turn.steps) : turn.steps[i] = "analyze_completion_status:sufficient"

\* C18 as stated (scenario 4): a turn whose merged context has every field
\* required for its intent and that is not a follow-up after an answer ends in
\* answered, returns the merged context, and its response holds a fact
\* summary block and a classification line.
C18_SufficientTurnAnswers ==
    (SufficiencyPassed /\ ~FollowupAfterAnswer) =>
        /\ session_state = "answered"
        /\ has_sufficient_info(context, TurnIntent)
        /\ {"fact_summary", "classification"} \subseteq turn.blocks

\* positions of a call in the steps of the last turn
StepsAt(call) == {i \in 1..Len(turn.steps) : turn.steps[i] = call}

\* C19: in every turn the extraction and then the merge come before the
\* sufficiency check; the RAG collaborator is called at most once, only after
\* a sufficiency check that passed, and never in a turn that asks a question.
C19_TurnOrder ==
    LET checks == StepsAt("analyze_completion_status:sufficient")
                      \cup StepsAt("analyze_completion_status:insufficient")
    IN /\ \A c \in checks :
             \E e \in StepsAt("extract_data"), m \in StepsAt("merge_context") :
                 e < m /\ m < c
       /\ Cardinality(StepsAt("process_query")) <= 1
       /\ \A r \in StepsAt("process_query") :
             \E c \in StepsAt("analyze_completion_status:sufficient") : c < r
       /\ (turn.next_question # NoneVal \/ session_state = "collecting_info") =>
             StepsAt("process_query") = {}
       /\ turn.rag_called = (StepsAt("process_query") # {})

\* C19 witness: a turn arriving in collecting_info learned the last required
\* field, passed the sufficiency check and then called the RAG collaborator
C19_Witness ==
    /\ turn.kind = "answer"
    /\ turn.arrived = "collecting_info"
    /\ TurnIntent = "eligibility_check"
    /\ StepsAt("process_query") # {}

\* the message of the last turn has a collector keyword
SaysCollector == \E i \in 1..Len(turn.message) : turn.message[i] = "kollektor"

\* C20 as stated: in a turn that asks a question, where debtAmount and
\* hasOverdue12Months are both missing for the intent and the message has an
\* overdue/collector keyword, the question is the one about hasOverdue12Months.
C20_CollectorAsksOverdue ==
    ( /\ turn.kind = "question"
      /\ SaysCollector
      /\ InList("debtAmount", get_missing_critical_fields(context, TurnIntent))
      /\ InList("hasOverdue12Months", get_missing_critical_fields(context, TurnIntent)) )
    => turn.next_question = question_templates[2].question

---------------------------------------------------------------------------
(* Claims about should_ask_followup_questions (SpecFollowup)               *)

\* the field is absent from the context of the call or null in it
FollowupUnknown(f) == f \notin DOMAIN prioIn.context \/ prioIn.context[f] = NoneVal

\* the context of the call has a debt above 10,000,000 and no property status
LargeDebtNoProperty ==
    /\ "debtAmount" \in DOMAIN prioIn.numbers
    /\ prioIn.numbers["debtAmount"] > 10000000
    /\ FollowupUnknown("hasProperty")

\* the context of the call has a government employee and no wage-arrest status
GovernmentNoWageArrest ==
    /\ "employmentType" \in DOMAIN prioIn.context
    /\ prioIn.context["employmentType"] = "government"
    /\ FollowupUnknown("hasWageArrest")

\* C24 as stated: the result is true exactly when (the intent is
\* eligibility_check and the debt is above 10,000,000 and hasProperty is
\* unknown) or (employmentType is government and hasWageArrest is unknown).
C24_FollowupAsStated ==
    prioOut.phase = "returned" =>
        (prioOut.followup <=>
            \/ prioIn.intent = "eligibility_check" /\ LargeDebtNoProperty
            \/ GovernmentNoWageArrest)

\* C24 amended: the result is true exactly when the intent is eligibility_check
\* and either the debt is strictly above 10,000,000 with hasProperty unknown or
\* employmentType is government with hasWageArrest unknown.
C24_FollowupOnlyForEligibility ==
    prioOut.phase = "returned" =>
        (prioOut.followup <=>
            /\ prioIn.intent = "eligibility_check"
            /\ (LargeDebtNoProperty \/ GovernmentNoWageArrest))

\* C24 witness: an eligibility check with a debt of exactly 10,000,000, no
\* property status and no government employment, answered false
C24_Witness ==
    /\ prioOut.phase = "returned"
    /\ prioIn.intent = "eligibility_check"
    /\ Get(prioIn.numbers, "debtAmount", 0) = 10000000
    /\ FollowupUnknown("hasProperty")
    /\ ~GovernmentNoWageArrest
    /\ ~prioOut.followup

---------------------------------------------------------------------------
(* Claims about get_priority_by_intent (SpecRank)                          *)

\* the base order of the intent of the last call
RankBase == Get(base_priority, rank_turn.intent, default_priority)

\* the last call is a call whose message has a keyword of the group
RankSays(words) ==
    rank_turn.kind = "call" /\ AnyIn(words, Lower(rank_turn.user_message))

\* C21: whenever the base list of the intent contains hasOverdue12Months and
\* the message has an overdue or collector keyword, the returned list starts
\* with hasOverdue12Months, whichever other keyword groups the message triggers.
C21_OverdueFirst ==
    (RankSays(overdue_words) /\ InList("hasOverdue12Months", RankBase))
        => rank_turn.result[1] = "hasOverdue12Months"

\* C21 witness: a message with keywords of all three groups, for an intent
\* whose base list has the overdue field second, returned with it first
C21_Witness ==
    /\ RankSays(overdue_words) /\ RankSays(income_words) /\ RankSays(property_words)
    /\ rank_turn.intent = "how_to_start"
    /\ RankBase[1] # "hasOverdue12Months"
    /\ rank_turn.result[1] = "hasOverdue12Months"

\* the list without the two fields
WithoutEmployment(xs) ==
    SelectSeq(xs, LAMBDA f : f \notin {"employmentType", "monthlyIncome"})

\* C22 as stated: for a message with keywords of the employment/income group
\* only and an intent whose base list has employmentType and monthlyIncome, the
\* result starts with employmentType immediately followed by monthlyIncome and
\* the other fields keep their base order.
C22_EmploymentThenIncome ==
    ( /\ RankSays(income_words)
      /\ ~RankSays(property_words) /\ ~RankSays(overdue_words)
      /\ InList("employmentType", RankBase) /\ InList("monthlyIncome", RankBase) )
    => /\ rank_turn.result[1] = "employmentType"
       /\ rank_turn.result[2] = "monthlyIncome"
       /\ WithoutEmployment(rank_turn.result) = WithoutEmployment(RankBase)

\* number of occurrences of x in xs
Occurrences(xs, x) == Cardinality({i \in 1..Len(xs) : xs[i] = x})

\* C23: every returned list is a permutation of the base list of the intent; a
\* call whose message triggers no keyword returns the base order, whatever
\* calls were made before; the catalog and the required-field sets stay as
\* they were built.
C23_PrivateCopy ==
    /\ rank_turn.kind = "call" =>
          /\ Len(rank_turn.result) = Len(RankBase)
          /\ \A i \in 1..Len(RankBase) :
                Occurrences(rank_turn.result, RankBase[i]) = Occurrences(RankBase, RankBase[i])
          /\ ( ( ~RankSays(income_words) /\ ~RankSays(property_words)
                 /\ ~RankSays(overdue_words) ) => rank_turn.result = RankBase )
    /\ rank_turn.kind # "idle" =>
          /\ rank_heap.required_fields = required_fields
          /\ rank_heap.question_templates = question_templates

\* C23 witness: a call without keyword, after a call that reordered the list
\* of the same intent, returned the base order
C23_Witness ==
    /\ rank_turn.kind = "call"
    /\ ~RankSays(income_words) /\ ~RankSays(property_words) /\ ~RankSays(overdue_words)
    /\ rank_turn.intent = "eligibility_check"
    /\ rank_turn.left_before["eligibility_check"] # base_priority["eligibility_check"]
    /\ rank_turn.result = base_priority["eligibility_check"]

---------------------------------------------------------------------------
(* Claims about interleaved conversations (SpecConc)                       *)

---------------------------------------------------------------------------
(* Claims about the classification (SpecCompose)                           *)

\* C27: the limit is 1600 times the index, exactly; the classification is
\* out-of-court if the debt is at most the limit and judicial otherwise; with
\* index 3692 the limit is 5,907,200, a debt of 5,000,000 is out-of-court and
\* one of 6,000,000 judicial.
C27_ClassificationExact ==
    composeOut.phase = "returned" =>
        /\ composeOut.limit = 1600 * composeIn.index
        /\ composeOut.classification \in {"out-of-court", "judicial"}
        /\ (composeOut.classification = "out-of-court")
              <=> (composeIn.debt_amount <= 1600 * composeIn.index)
        /\ composeIn.index = 3692 =>
              /\ composeOut.limit = 5907200
              /\ composeIn.debt_amount = 5000000 =>
                    composeOut.classification = "out-of-court"
              /\ composeIn.debt_amount = 6000000 =>
                    composeOut.classification = "judicial"

\* C27 witness: with index 3692, a debt equal to the limit classified
\* out-of-court
C27_Witness ==
    /\ composeOut.phase = "returned"
    /\ composeIn.index = 3692
    /\ composeIn.debt_amount = 5907200
    /\ composeOut.classification = "out-of-court"

---------------------------------------------------------------------------
(* Claims about the scripted conversation (SpecQuery)                      *)

\* the message of the last turn has the word "ip" in either case
SaysIP == \E i \in 1..Len(q_turn.message) : q_turn.message[i] \in {"ip", "IP"}

\* the message of the last turn has the word "privet" in either case
SaysPrivet == \E i \in 1..Len(q_turn.message) : q_turn.message[i] \in {"privet", "Privet"}

\* the disqualification reply: the fixed text, state answered, no next question,
\* the prior context handed back, neither the analysis nor the RAG called
Disqualified ==
    /\ q_turn.kind # "raised"
    /\ q_turn.response = << IPResponse >>
    /\ q_state = "answered"
    /\ q_turn.next_question = NoneVal
    /\ q_context = q_turn.prior_context
    /\ ~q_turn.analysis_called
    /\ ~q_turn.rag_called

C8_GreetingResets ==
    (q_turn.kind # "none" /\ SaysPrivet) =>
        /\ q_context = [question_step |-> 2, answers |-> << >>]
        /\ q_state = "collecting_info"
        /\ q_turn.response = << CanonicalGreeting, questions[1] >>

\* C8 witness: a greeting arrived after three answers had been collected and
\* the returned context holds none of them
C8_Witness ==
    /\ q_turn.kind = "greeting"
    /\ SaysPrivet
    /\ Len(Get(q_turn.prior_context, "answers", << >>)) = 3
    /\ q_context = [question_step |-> 2, answers |-> << >>]

\* C28: a message with a greeting keyword and an entrepreneur keyword is
\* handled as a greeting, the first rule that matches: the context is reset,
\* the state is collecting_info and the reply is not the disqualification.
C28_GreetingBeforeEntrepreneur ==
    (q_turn.kind # "none" /\ SaysPrivet /\ SaysIP) =>
        /\ q_turn.kind = "greeting"
        /\ q_context = [question_step |-> 2, answers |-> << >>]
        /\ q_state = "collecting_info"
        /\ q_turn.response # << IPResponse >>
        /\ q_turn.next_question = questions[1]

\* C28 witness: a greeting with the entrepreneur keyword arrived in the middle
\* of the script and restarted it
C28_Witness ==
    /\ q_turn.kind = "greeting"
    /\ SaysPrivet /\ SaysIP
    /\ Len(Get(q_turn.prior_context, "answers", << >>)) = 2
    /\ q_state = "collecting_info"

\* C29 as stated: in a conversation that starts with a greeting and goes on
\* with plain messages no question is asked twice, and when the final answer
\* comes each of the four scripted questions has been asked exactly once.
C29_NoQuestionRepeated ==
    q_script.started =>
        /\ \A i, j \in 1..Len(q_script.asked) :
              i # j => q_script.asked[i] # q_script.asked[j]
        /\ q_turn.kind = "answer" =>
              \A k \in 1..Len(questions) :
                  Cardinality({i \in 1..Len(q_script.asked) :
                                  q_script.asked[i] = questions[k]}) = 1

\* the message is one the user sent in reply to the k-th scripted question
RepliedTo(k, message) ==
    \E i \in 1..Len(q_script.replies) :
        /\ q_script.replies[i].question = questions[k]
        /\ q_script.replies[i].message = message

\* C30 as stated: in the final structured query of a conversation that started
\* with a greeting and went on with plain messages, the answers labelled debt
\* amount, overdue period, work and income, and property are the replies to
\* the first, second, third and fourth scripted question.
C30_AnswersMatchQuestions ==
    (q_script.started /\ q_turn.kind = "answer") =>
        /\ RepliedTo(1, q_turn.client_data.debt_amount)
        /\ RepliedTo(2, q_turn.client_data.overdue_period)
        /\ RepliedTo(3, q_turn.client_data.work_and_income)
        /\ RepliedTo(4, q_turn.client_data.property)

\* the last turn handled a message with neither a greeting keyword nor an
\* entrepreneur keyword and returned
PlainTurn ==
    /\ q_turn.kind \notin {"none", "idle", "raised"}
    /\ ~IsGreeting(q_turn.message)
    /\ ~IsEntrepreneur(q_turn.message)

\* C31 as stated: a turn with a message that is neither a greeting nor an
\* entrepreneur message, whatever the prior context (the empty context of a new
\* conversation included), ends in collecting_info or answered, never in error.
C31_NormalTurnNeverError ==
    PlainTurn => q_state \in {"collecting_info", "answered"}

\* C32 as stated: after any turn the context the caller passed in, the contents
\* of its answers list included, is as it was before the call.
C32_CallerContextUntouched ==
    q_turn.kind \notin {"none", "idle"} => q_turn.caller_context = q_turn.prior_context

\* C33 as stated: after a disqualification reply every later turn without a
\* greeting also ends in answered; only a greeting brings the conversation
\* back to collecting_info.
C33_DisqualificationIsFinal ==
    (q_script.disqualified /\ q_turn.kind # "raised") => q_state = "answered"

\* C36: in a conversation begun by a greeting, every returned context has a
\* question_step within 2..6, and whenever the returned state is
\* collecting_info the number of stored answers is question_step - 2.
C36_StepCountsAnswers ==
    q_script.greeted =>
        /\ "question_step" \in DOMAIN q_context
        /\ q_context["question_step"] \in 2..6
        /\ "answers" \in DOMAIN q_context
        /\ q_state = "collecting_info" =>
              Len(q_context["answers"]) = q_context["question_step"] - 2

\* C36 witness: the turn that asks the last scripted question returned step 6
\* with four answers, in state collecting_info
C36_Witness ==
    /\ q_script.greeted
    /\ q_turn.kind = "question"
    /\ q_state = "collecting_info"
    /\ q_context["question_step"] = 6
    /\ Len(q_context["answers"]) = 4

C34_RequirementSetFixed ==
    [][(/\ session_state = "collecting_info"
        /\ session_state' = "answered"
        /\ turn'.raised = "none")
       => \/ has_sufficient_info(context', Get(context, "userIntent", NoneVal))
          \/ get_next_question(context', Get(context, "userIntent", NoneVal))
                 = NoQuestion]_vars

---------------------------------------------------------------------------
(* Claims about the api_server conversation (SpecServer)                   *)

\* C16 as stated: a turn ends in offering_product only when it arrived in
\* answered and its message matches the follow-up keywords; no turn arriving
\* in initial, collecting_info, offering_product or error ends there.
C16_OfferingOnlyAfterAnswered ==
    (srv_turn.kind = "answer" /\ srv_state = "offering_product") =>
        /\ srv_turn.arrived = "answered"
        /\ is_followup_question(srv_turn.message)

\* the answersReceived key each question of get_next_questions is asked for
ServerQuestionKey ==
    (ServerQuestion.debt_amount :> "debtAmount")
    @@ (ServerQuestion.income_amount :> "incomeAmount")
    @@ (ServerQuestion.income_stability :> "incomeStable")
    @@ (ServerQuestion.has_overdue :> "hasOverdue12Months")

\* C38 as stated: get_next_questions returns at most two questions, never the
\* same question twice in one result, and never a question whose key is
\* already in answersReceived.
C38_QuestionsDistinctAndOpen ==
    srv_turn.kind = "question" =>
        LET qs == srv_turn.questions
            answers == Get(srv_turn.context, "answersReceived", EmptyDict)
        IN /\ Len(qs) <= 2
           /\ \A i, j \in 1..Len(qs) : qs[i] = qs[j] => i = j
           /\ \A i \in 1..Len(qs) : ServerQuestionKey[qs[i]] \notin DOMAIN answers

===========================================================================
